---- MODULE Spec2Model ----
(***************************************************************************)
(* A model of pymake: the build engine (Target.make and its helpers in     *)
(* pymake/data.py), the parallel execution context (pymake/process.py),    *)
(* the variable store and expansion resolution (pymake/data.py,            *)
(* pymake/functions.py) and the conditional stack of the parser            *)
(* (pymake/parser.py).  Each part is a state machine of its own over its   *)
(* own variables; a specification runs one part and leaves the variables   *)
(* of the other parts at their initial values.                             *)
(***************************************************************************)
EXTENDS Integers, Sequences, FiniteSets, TLC

VARIABLES
    \* ---- build engine (data.py: Makefile, Target, Rule) ----
    rules,        \* Target.rules of every target: a sequence of rules
    disk,         \* the file system: st_mtime of every name, or None
    mtime,        \* Target.mtime
    vpathtarget,  \* Target.vpathtarget (None until resolvevpath ran)
    realmtime,    \* Target.realmtime (set by Target.remake)
    remade,       \* Target.remade: "None", "True" or "False"
    explicit,     \* Target.explicit
    goals,        \* the goals make.py has still to make
    stack,        \* the active calls of Target.make, innermost last
    pc,           \* where the driver (make.py) is
    err,          \* the error that ended the invocation, or None
    execcount,    \* history: how often rule.execute ran, per target and rule
    lastexit,     \* history: the exit status of the command line run last
    phony,        \* the prerequisites of the rules of the target .PHONY
    implicitrules,\* Makefile.implicitrules: the pattern rules, in order
    stmts,        \* the statements of the makefiles, as written
    included,     \* Makefile.included
    restarts,     \* make.py: i, the number of restarts
    status,       \* the exit status of the invocation, or None
    remk,         \* remakemakefiles: its position in included, oldmtime, reparse
    \* ---- parallel execution context (process.py: ParallelContext) ----
    jcount,       \* ParallelContext.jcount
    threadcount,  \* ParallelContext.threadcount
    pending,      \* ParallelContext.pending: the commands not yet started (idx)
    running,      \* ParallelContext.running
    results,      \* ParallelContext.results: (idx, res) of the finished commands
    counter,      \* ParallelContext.counter: the idx of the next call
    threads,      \* the worker threads (_run): where each is, and its command
    waitq,        \* the workers blocked in notifypending.wait(), oldest first
    main,         \* where the main thread is (before spin, in spin, after)
    lresults,     \* spin's local list of results whose callbacks are to be run
    hist,         \* history: the commands started, the children exited, the callbacks called
    \* ---- variable store (data.py: Variables; parser.py: setvariable) ----
    varmap,       \* Variables._map of every scope: name -> (flavor, source, value)
    nops,         \* how many statements were executed
    script,       \* how many statements of the example script were executed, or -1
    result,       \* the variable last resolved and what resolving it gave
    verr,         \* the error that ended the parse, or None
    \* ---- conditionals (parser.py: parsestream, Condition) ----
    lines,        \* the lines of the makefile
    lineno,       \* the line parsestream is at
    condstack,    \* parsestream's condstack, innermost last
    processed,    \* the lines that were processed as makefile lines
    evaluated,    \* the conditional lines whose condition was evaluated
    currule,      \* parsestream's currule: is there a rule to add commands to
    cstate,       \* "parsing", "done" or "error"
    cerr,         \* the exception that ended parsestream and its line, or None
    \* ---- MAKEFLAGS (data.py: getsubenvironment, command.py: parsemakeflags) ----
    overrides,    \* Makefile.overrides: the assignments of the command line
    makeflags,    \* the value of MAKEFLAGS: the variable, then env['MAKEFLAGS']
    opts,         \* what parsemakeflags returned in the sub-make
    fstate,       \* "args", "env", "parsed" or "error"
    \* ---- functions without state (Pattern, Data, the rule headers) ----
    call,         \* the function that is called and its arguments
    returned      \* what it returned or raised, or None before the call

drvvars == <<phony, implicitrules, stmts, included, restarts, status, remk>>

makevars == <<rules, disk, mtime, vpathtarget, realmtime, remade, explicit,
              goals, stack, pc, err, execcount, lastexit, drvvars>>

parvars == <<jcount, threadcount, pending, running, results, counter, threads,
             waitq, main, lresults, hist>>

varvars == <<varmap, nops, script, result, verr>>

condvars == <<lines, lineno, condstack, processed, evaluated, currule, cstate, cerr>>

flagvars == <<overrides, makeflags, opts, fstate>>

purevars == <<call, returned>>

vars == <<makevars, parvars, varvars, condvars, flagvars, purevars>>

None == "None"

\* ------------------------------------------------------------------------
\* Bounds of the build-engine model
\* ------------------------------------------------------------------------
Names == {"a", "b", "c"}
Leaves == {"b", "c"}
MaxMtime == 2
MaxRules == 2

\* The mtime of a file that does not exist (getmtime returns None); real
\* mtimes are 1..MaxMtime.
NoMtime == 0

Mtimes == {NoMtime} \cup (1..MaxMtime)

\* Sequences over S without repetition, in every order, of length <= n
RECURSIVE ListsOver(_, _)
ListsOver(S, n) ==
    IF n = 0 THEN {<<>>}
    ELSE {<<>>} \cup UNION {{<<x>> \o l : l \in ListsOver(S \ {x}, n - 1)} : x \in S}

\* The names in increasing order, as the lists of prerequisites are written
NameOrder == <<"a", "b", "c">>
Sorted(l) == \A i, j \in 1..Len(l) :
    i < j => (CHOOSE k \in 1..3 : NameOrder[k] = l[i]) < (CHOOSE k \in 1..3 : NameOrder[k] = l[j])

PrereqLists(S) == {l \in ListsOver(S, Cardinality(S)) : Sorted(l)}

\* A command line of a recipe: its characters (prefix characters, then the
\* command) and whether the command writes the target's file when it succeeds.
Line(txt, touch) == [text |-> txt, touch |-> touch]

Plain == Line(<<"cmd">>, FALSE)

\* A Rule; prule is 0 (a PatternRuleInstance carries the index of its
\* PatternRule in Makefile.implicitrules).
Rule(p, dc, c) == [prerequisites |-> p, doublecolon |-> dc, commands |-> c, prule |-> 0]

RECURSIVE SeqsUpTo(_, _)
SeqsUpTo(S, n) ==
    IF n = 0 THEN {<<>>}
    ELSE LET shorter == SeqsUpTo(S, n - 1)
         IN  shorter \cup {Append(s, x) : s \in {t \in shorter : Len(t) = n - 1}, x \in S}

\* Makefiles in which every target has at most one rule, a single-colon rule
\* with commands, over any prerequisites (chains, diamonds, cycles).
GraphMakefiles ==
    [Names -> {<<>>} \cup {<<Rule(p, FALSE, <<Plain>>)>> : p \in PrereqLists(Names)}]

\* Makefiles in which target a has up to MaxRules rules, single- or
\* double-colon, with or without commands, over the leaves b and c; b has a
\* rule with commands and no prerequisites, c has such a rule or none.
RuleMakefiles ==
    {[t \in Names |-> IF t = "a" THEN ra ELSE IF t = "b" THEN rb ELSE rc] :
        ra \in UNION {{s \in SeqsUpTo({Rule(p, dc, c) : p \in PrereqLists(Leaves),
                                                         c \in {<<>>, <<Plain>>}}, MaxRules) :
                          Len(s) >= 1} : dc \in BOOLEAN},
        rb \in {<<Rule(<<>>, FALSE, <<Plain>>)>>},
        rc \in {<<>>, <<Rule(<<>>, FALSE, <<Plain>>)>>}}

Makefiles == GraphMakefiles \cup RuleMakefiles

\* The parts of the model that are not running stay as they are.
ParOff ==
    /\ jcount = 0 /\ threadcount = 0 /\ pending = <<>> /\ running = 0
    /\ results = <<>> /\ counter = 0 /\ threads = <<>> /\ waitq = <<>>
    /\ main = "off" /\ lresults = <<>> /\ hist = <<>>

VarOff ==
    /\ varmap = <<>> /\ nops = 0 /\ script = 0 /\ result = <<>> /\ verr = "off"

CondOff ==
    /\ lines = <<>> /\ lineno = 0 /\ condstack = <<>> /\ processed = {}
    /\ evaluated = {} /\ currule = FALSE /\ cstate = "off" /\ cerr = None

PureOff == call = <<>> /\ returned = None

FlagOff == overrides = <<>> /\ makeflags = <<>> /\ opts = <<>> /\ fstate = "off"

MakeOnly == UNCHANGED <<parvars, varvars, condvars, drvvars, flagvars, purevars>>

ParOnly == UNCHANGED <<makevars, varvars, condvars, flagvars, purevars>>

VarOnly == UNCHANGED <<makevars, parvars, condvars, flagvars, purevars>>

CondOnly == UNCHANGED <<makevars, parvars, varvars, flagvars, purevars>>

FlagOnly == UNCHANGED <<makevars, parvars, varvars, condvars, purevars>>

PureOnly == UNCHANGED <<makevars, parvars, varvars, condvars, flagvars>>

MakeOff ==
    /\ rules = <<>> /\ disk = <<>> /\ mtime = <<>> /\ vpathtarget = <<>>
    /\ realmtime = <<>> /\ remade = <<>> /\ explicit = <<>> /\ goals = <<>>
    /\ stack = <<>> /\ pc = "off" /\ err = None /\ execcount = <<>>
    /\ lastexit = 0 /\ phony = {} /\ implicitrules = <<>> /\ stmts = <<>>
    /\ included = <<>> /\ restarts = 0 /\ status = None /\ remk = <<>>

\* ------------------------------------------------------------------------
\* data.py: helpers
\* ------------------------------------------------------------------------
InSeq(x, s) == \E i \in 1..Len(s) : s[i] = x

\* mtimeislater with >= for >
mtimeislater_OrEqual(deptime, targettime) ==
    IF deptime = NoMtime THEN TRUE
    ELSE IF targettime = NoMtime THEN FALSE
    ELSE deptime >= targettime

\* Is the mtime of the dependency later than the target's?
mtimeislater(deptime, targettime) ==
    IF deptime = NoMtime THEN TRUE
    ELSE IF targettime = NoMtime THEN FALSE
    ELSE deptime > targettime

\* os.stat(path).st_mtime, or None when the file is missing
getmtime(path) == disk[path]

\* ruleswithcommands that finds none
ruleswithcommands_None(rs) == 0

\* The number of rules with commands among the rules rs of a target
ruleswithcommands(rs) == Cardinality({i \in 1..Len(rs) : Len(rs[i].commands) > 0})

isdoublecolon(t) == rules[t][1].doublecolon

\* Target.hasdependency, for the target .PHONY
hasdependency(t) == t \in phony

\* Target.isphony computes the answer into a local and returns nothing, so
\* every caller sees a false value.
isphony(t) == LET phonylocal == hasdependency(t) IN FALSE

\* The prerequisites of all rules of t, in the order make visits them
RECURSIVE FlatPrereqs(_, _)
FlatPrereqs(rs, i) ==
    IF i > Len(rs) THEN <<>> ELSE rs[i].prerequisites \o FlatPrereqs(rs, i + 1)

\* Makefile.finishparsing: every target of the target map, and every
\* prerequisite of one of their rules, is explicit.
finishparsing(rs) ==
    [t \in Names |-> Len(rs[t]) > 0 \/ \E u \in Names : InSeq(t, FlatPrereqs(rs[u], 1))]

\* Target.resolvevpath on the record s = [vp, mt, rl, err]: there are no vpath
\* directories, so the search list is the target's own name.
resolvevpath(s, t) ==
    IF s.vp[t] # None THEN s
    ELSE IF isphony(t) THEN [s EXCEPT !.vp[t] = t, !.mt[t] = NoMtime]
    ELSE [s EXCEPT !.vp[t] = t, !.mt[t] = getmtime(t)]

\* ------------------------------------------------------------------------
\* data.py: Pattern, PatternRule, PatternRuleInstance
\* ------------------------------------------------------------------------
\* The file names of the targets, character by character: fxx, fx and f
Text(t) == IF t = "a" THEN <<"f", "x", "x">> ELSE IF t = "b" THEN <<"f", "x">> ELSE <<"f">>

\* Makefile.gettarget: the target record of a file name
gettarget(w) == CHOOSE t \in Names : Text(t) = w

\* A pattern with a %: data = (pre, suf)
Pattern(pre, suf) == [pre |-> pre, suf |-> suf]

ismatchany(pat) == pat.pre = <<>> /\ pat.suf = <<>>

startswith(w, p) == Len(w) >= Len(p) /\ SubSeq(w, 1, Len(p)) = p

endswith(w, p) == Len(w) >= Len(p) /\ SubSeq(w, Len(w) - Len(p) + 1, Len(w)) = p

\* Pattern.match: [ok, stem], ok false for None
match(pat, word) ==
    IF Len(word) >= Len(pat.pre) + Len(pat.suf) /\ startswith(word, pat.pre)
          /\ endswith(word, pat.suf)
    THEN [ok |-> TRUE, stem |-> SubSeq(word, Len(pat.pre) + 1, Len(word) - Len(pat.suf))]
    ELSE [ok |-> FALSE, stem |-> <<>>]

\* Pattern.resolve
patternresolve(pat, dir, stem) == dir \o pat.pre \o stem \o pat.suf

PatternRule(tp, prereqs, dc, c) ==
    [targetpatterns |-> <<tp>>, prerequisites |-> prereqs, doublecolon |-> dc,
     commands |-> c]

\* PatternRule.hasmatch
hasmatch(r, file) == \E i \in 1..Len(r.targetpatterns) : match(r.targetpatterns[i], file).ok

\* PatternRule.prerequisitesforstem, as target names
RECURSIVE prerequisitesforstem(_, _, _)
prerequisitesforstem(ps, dir, stem) ==
    IF ps = <<>> THEN <<>>
    ELSE <<gettarget(patternresolve(Head(ps), dir, stem))>>
             \o prerequisitesforstem(Tail(ps), dir, stem)

\* PatternRuleInstance.__init__ for the pattern rule r, the k-th of
\* Makefile.implicitrules
PatternRuleInstance(r, k, dir, stem) ==
    [prerequisites |-> prerequisitesforstem(r.prerequisites, dir, stem),
     doublecolon |-> r.doublecolon, commands |-> r.commands, prule |-> k]

\* PatternRule.matchesfor: the names have no directory part
RECURSIVE matchesfor(_, _, _, _, _)
matchesfor(r, k, file, skipsinglecolonmatchany, i) ==
    IF i > Len(r.targetpatterns) THEN <<>>
    ELSE LET p == r.targetpatterns[i]
             rest == matchesfor(r, k, file, skipsinglecolonmatchany, i + 1)
         IN  IF ismatchany(p)
             THEN IF skipsinglecolonmatchany /\ ~r.doublecolon THEN rest
                  ELSE <<PatternRuleInstance(r, k, <<>>, file)>> \o rest
             ELSE IF match(p, file).ok
                  THEN <<PatternRuleInstance(r, k, <<>>, match(p, file).stem)>> \o rest
                  ELSE rest

\* The entries of a rule stack: a PatternRule (pushed by the chaining pass of
\* resolveimplicitrule) or a rule of a target (pushed by resolvedeps)
PRuleEntry(k) == [kind |-> "PatternRule", target |-> None, id |-> k]

RuleEntry(t, i) == [kind |-> "Rule", target |-> t, id |-> i]

\* inrulestack that never finds the rule
inrulestack_Never(k, rulestack) == FALSE

\* "r in rulestack" for the pattern rule k: the rules have no __eq__, an
\* entry is equal to r only when it is r itself
inrulestack(k, rulestack) ==
    \E j \in 1..Len(rulestack) : rulestack[j].kind = "PatternRule" /\ rulestack[j].id = k

\* Target.resolveimplicitrule: the candidates
RECURSIVE candidates(_, _, _)
candidates(t, rulestack, k) ==
    IF k > Len(implicitrules) THEN <<>>
    ELSE LET r == implicitrules[k]
             anymatch == \E j \in 1..Len(implicitrules) : hasmatch(implicitrules[j], Text(t))
             rest == candidates(t, rulestack, k + 1)
         IN  IF inrulestack(k, rulestack) THEN rest
             ELSE IF Len(r.commands) = 0 THEN rest
             ELSE matchesfor(r, k, Text(t), anymatch, 1) \o rest

\* depfailed that lets every prerequisite pass
depfailed_Never(isexplicit, mt) == FALSE

\* Target.resolveimplicitrule: "if not t.explicit and t.mtime is None"
depfailed(isexplicit, mt) == ~isexplicit /\ mt = NoMtime

\* Target.resolveimplicitrule, first pass over the prerequisites of one
\* candidate: resolvevpath of each until one is not mentioned and missing
RECURSIVE vpathprereqs(_, _)
vpathprereqs(s, ps) ==
    IF ps = <<>> THEN s
    ELSE LET s1 == resolvevpath(s, Head(ps))
         IN  IF depfailed(explicit[Head(ps)], s1.mt[Head(ps)])
             THEN [s1 EXCEPT !.err = "depfailed"]
             ELSE vpathprereqs(s1, Tail(ps))

\* The errors that are ResolutionErrors
ResolutionErrors == {"recursive", "norule"}

\* terminal that takes every rule for non-terminal
terminal_Never(r) == FALSE

\* Target.resolveimplicitrule: "if r.doublecolon", the candidate that failed
\* the first pass is not kept for the second
terminal(r) == r.doublecolon

\* swallowed that lets the error through
swallowed_Never(e) == FALSE

\* Target.resolveimplicitrule: "except ResolutionError: depfailed = p"
swallowed(e) == e \in ResolutionErrors

\* onstack without the test
onstack_Never(t, targetstack) == FALSE

\* Target.resolvedeps: "if self.target in targetstack"
onstack(t, targetstack) == InSeq(t, targetstack)

\* Target.resolvedeps and Target.resolveimplicitrule.  The result is the
\* record s with the targets' resolved paths, mtimes and rules, and with err
\* set when an error was raised.
RECURSIVE resolvedeps(_, _, _, _, _)
RECURSIVE resolveprereqs(_, _, _, _, _, _)
RECURSIVE firstpass(_, _, _, _, _, _)
RECURSIVE chainpass(_, _, _, _, _)
RECURSIVE chainprereqs(_, _, _, _)
\* resolveimplicitrule: "for r in candidates"
firstpass(s, t, cands, newcandidates, targetstack, rulestack) ==
    IF cands = <<>> THEN chainpass(s, t, newcandidates, targetstack, rulestack)
    ELSE LET r == Head(cands)
             s1 == vpathprereqs(s, r.prerequisites)
             s2 == [s1 EXCEPT !.err = None]
         IN  IF s1.err = "depfailed"
             THEN IF terminal(r)
                  THEN firstpass(s2, t, Tail(cands), newcandidates, targetstack, rulestack)
                  ELSE firstpass(s2, t, Tail(cands), Append(newcandidates, r),
                                 targetstack, rulestack)
             ELSE [s1 EXCEPT !.rl[t] = Append(@, r)]

\* resolveimplicitrule: "for p in r.prerequisites: t.resolvedeps(...)"
chainprereqs(s, ps, targetstack, newrulestack) ==
    IF ps = <<>> THEN s
    ELSE LET s1 == resolvedeps(s, Head(ps), targetstack, newrulestack, TRUE)
         IN  IF s1.err # None THEN s1
             ELSE chainprereqs(s1, Tail(ps), targetstack, newrulestack)

\* resolveimplicitrule: "for r in newcandidates", with chaining
chainpass(s, t, newcandidates, targetstack, rulestack) ==
    IF newcandidates = <<>> THEN s
    ELSE LET r == Head(newcandidates)
             s1 == chainprereqs(s, r.prerequisites, targetstack,
                                Append(rulestack, PRuleEntry(r.prule)))
         IN  IF swallowed(s1.err)
             THEN chainpass([s1 EXCEPT !.err = None], t, Tail(newcandidates),
                            targetstack, rulestack)
             ELSE IF s1.err # None THEN s1
             ELSE [s1 EXCEPT !.rl[t] = Append(@, r)]

\* Target.resolveimplicitrule
resolveimplicitrule(s, t, targetstack, rulestack) ==
    firstpass(s, t, candidates(t, rulestack, 1), <<>>, targetstack, rulestack)

\* noruletomake that does not look at required
noruletomake_Always(rs, mt, required) == Len(rs) = 0 /\ mt = NoMtime

\* Target.resolvedeps: "if not len(self.rules) and self.mtime is None and not
\* any(...): if required: raise ResolutionError"
noruletomake(rs, mt, required) == Len(rs) = 0 /\ mt = NoMtime /\ required

resolvedeps(s, t, targetstack, rulestack, required) ==
    IF onstack(t, targetstack) THEN [s EXCEPT !.err = "recursive"]
    ELSE LET s1 == resolvevpath(s, t)
             n == ruleswithcommands(s1.rl[t])
             s2 == IF n = 0
                   THEN resolveimplicitrule(s1, t, targetstack \o <<t>>, rulestack)
                   ELSE s1
         IN  IF Len(s1.rl[t]) > 0 /\ ~s1.rl[t][1].doublecolon /\ n > 1
             THEN [s1 EXCEPT !.err = "multiple"]
             ELSE IF s2.err # None THEN s2
             ELSE IF noruletomake(s2.rl[t], s2.mt[t], required)
             THEN [s2 EXCEPT !.err = "norule"]
             ELSE resolveprereqs(s2, t, 1, 1, targetstack \o <<t>>, rulestack)

\* Target.resolvedeps: "for r in self.rules: for d in r.prerequisites"
resolveprereqs(s, t, i, j, targetstack, rulestack) ==
    IF s.err # None \/ i > Len(s.rl[t]) THEN s
    ELSE IF j > Len(s.rl[t][i].prerequisites)
    THEN resolveprereqs(s, t, i + 1, 1, targetstack, rulestack)
    ELSE LET d == s.rl[t][i].prerequisites[j]
         IN  IF explicit[d] THEN resolveprereqs(s, t, i, j + 1, targetstack, rulestack)
             ELSE resolveprereqs(resolvedeps(s, d, targetstack,
                                             Append(rulestack, RuleEntry(t, i)), TRUE),
                                 t, i, j + 1, targetstack, rulestack)

\* ------------------------------------------------------------------------
\* data.py: Target.make, one frame of the stack per active call
\* ------------------------------------------------------------------------
Frame(t, targetstack, required, avoidremakeloop) ==
    [target |-> t, targetstack |-> targetstack, required |-> required,
     avoidremakeloop |-> avoidremakeloop, stage |-> "enter",
     ri |-> 1, pi |-> 1, ci |-> 1, remake |-> FALSE, didanything |-> FALSE,
     mt0 |-> NoMtime]

Top == stack[Len(stack)]

\* The rule of a single-colon target that has commands (0 when there is none)
commandrule(t) ==
    IF \E i \in 1..Len(rules[t]) : Len(rules[t][i].commands) > 0
    THEN CHOOSE i \in 1..Len(rules[t]) : Len(rules[t][i].commands) > 0
    ELSE 0

\* StartRule that executes a rule without prerequisites in every call
StartRule_Always(f, rs, i, m) ==
    [f EXCEPT !.ri = i, !.pi = 1, !.stage = "deps",
              !.remake = IF Len(rs[i].prerequisites) = 0 THEN TRUE ELSE m = NoMtime]

\* A double-colon target starts on its rule i, of its rules rs; m is the
\* target's mtime now.
StartRule(f, rs, i, m) ==
    [f EXCEPT !.ri = i, !.pi = 1, !.stage = "deps",
              !.remake = IF Len(rs[i].prerequisites) = 0
                         THEN ~f.avoidremakeloop
                         ELSE m = NoMtime]

\* After rule f.ri of a double-colon target: the next rule, or the end.
AfterRule(f, m) ==
    IF f.ri < Len(rules[f.target]) THEN StartRule(f, rules[f.target], f.ri + 1, m)
    ELSE [f EXCEPT !.stage = "ret"]

\* The first step after resolvedeps: the branch on the kind of target.
BeginRules(f, rl, m) ==
    IF Len(rl[f.target]) = 0 THEN [f EXCEPT !.stage = "ret"]
    ELSE IF rl[f.target][1].doublecolon THEN StartRule(f, rl[f.target], 1, m)
    ELSE [f EXCEPT !.stage = "deps", !.ri = 1, !.pi = 1, !.remake = (m = NoMtime)]

\* make() returns val to its caller: the caller's loop body after dep.make,
\* or the driver's loop over the goals.
Return(val) ==
    LET rest == SubSeq(stack, 1, Len(stack) - 1)
    IN  IF rest = <<>>
        THEN stack' = <<>> /\ pc' = IF Top.avoidremakeloop THEN "remade" ELSE "idle"
        ELSE LET c == rest[Len(rest)]
             IN  /\ stack' = [rest EXCEPT ![Len(rest)] =
                        [c EXCEPT !.didanything = val \/ c.didanything,
                                  !.remake = c.remake \/
                                      mtimeislater(mtime[Top.target], mtime[c.target]),
                                  !.pi = c.pi + 1]]
                 /\ pc' = pc

\* make.py: for t in targets: m.gettarget(t).make(m, ['<command-line>'], [])
StartGoal ==
    /\ MakeOnly
    /\ pc = "idle" /\ goals # <<>>
    /\ stack' = <<Frame(Head(goals), <<"<command-line>">>, TRUE, FALSE)>>
    /\ goals' = Tail(goals)
    /\ pc' = "make"
    /\ UNCHANGED <<rules, disk, mtime, vpathtarget, realmtime, remade, explicit,
                   err, execcount, lastexit>>

\* make.py: all goals are made, the invocation ends
Finish ==
    /\ MakeOnly
    /\ pc = "idle" /\ goals = <<>>
    /\ pc' = "done"
    /\ UNCHANGED <<rules, disk, mtime, vpathtarget, realmtime, remade, explicit,
                   goals, stack, err, execcount, lastexit>>

\* IsRemade without the cache
IsRemade_Never(t) == FALSE

\* Target.make: "self.remade is not None"
IsRemade(t) == remade[t] # None

\* Target.make: "if self.remade is not None: return self.remade"
MakeCached ==
    /\ MakeOnly
    /\ pc = "make" /\ Top.stage = "enter"
    /\ IsRemade(Top.target)
    /\ Return(remade[Top.target] = "True")
    /\ UNCHANGED <<rules, disk, mtime, vpathtarget, realmtime, remade, explicit,
                   goals, err, execcount, lastexit>>

\* Target.make: resolvedeps, then the branch on the kind of target
MakeResolve ==
    /\ MakeOnly
    /\ pc = "make" /\ Top.stage = "enter"
    /\ ~IsRemade(Top.target)
    /\ LET f == Top
           r == resolvedeps([vp |-> vpathtarget, mt |-> mtime, rl |-> rules,
                             err |-> None],
                            f.target, f.targetstack, <<>>, f.required)
       IN  /\ vpathtarget' = r.vp
           /\ mtime' = r.mt
           /\ rules' = r.rl
           /\ execcount' = [t \in Names |-> [i \in 1..Len(r.rl[t]) |->
                                IF i <= Len(rules[t]) THEN execcount[t][i] ELSE 0]]
           /\ IF r.err # None
              THEN /\ pc' = "error" /\ err' = r.err
                   /\ UNCHANGED stack
              ELSE /\ stack' = [stack EXCEPT ![Len(stack)] =
                        BeginRules([f EXCEPT !.targetstack = f.targetstack \o <<f.target>>,
                                             !.mt0 = r.mt[f.target]],
                                   r.rl, r.mt[f.target])]
                   /\ UNCHANGED <<pc, err>>
    /\ UNCHANGED <<disk, realmtime, remade, explicit, goals, lastexit>>

\* Target.make: "dep.make(makefile, targetstack, [])" for the next prerequisite
CallDep ==
    /\ MakeOnly
    /\ pc = "make" /\ Top.stage = "deps"
    /\ Top.pi <= Len(rules[Top.target][Top.ri].prerequisites)
    /\ stack' = Append(stack, Frame(rules[Top.target][Top.ri].prerequisites[Top.pi],
                                    Top.targetstack, TRUE, FALSE))
    /\ UNCHANGED <<rules, disk, mtime, vpathtarget, realmtime, remade, explicit,
                   goals, pc, err, execcount, lastexit>>

\* Target.make, single-colon: "for r in self.rules" moves to the next rule
NextRule ==
    /\ MakeOnly
    /\ pc = "make" /\ Top.stage = "deps"
    /\ ~isdoublecolon(Top.target)
    /\ Top.pi > Len(rules[Top.target][Top.ri].prerequisites)
    /\ Top.ri < Len(rules[Top.target])
    /\ stack' = [stack EXCEPT ![Len(stack)] = [Top EXCEPT !.ri = Top.ri + 1, !.pi = 1]]
    /\ UNCHANGED <<rules, disk, mtime, vpathtarget, realmtime, remade, explicit,
                   goals, pc, err, execcount, lastexit>>

\* Decided without waiting for the prerequisites of the rule
Decided_Early(f) ==
    /\ f.stage = "deps"
    /\ isdoublecolon(f.target) \/ f.ri = Len(rules[f.target])

\* The prerequisites are made and the decision is taken (the last rule of a
\* single-colon target, any rule of a double-colon target).
Decided(f) ==
    /\ f.stage = "deps"
    /\ f.pi > Len(rules[f.target][f.ri].prerequisites)
    /\ isdoublecolon(f.target) \/ f.ri = Len(rules[f.target])

\* Target.make: "if remake: self.remake()", up to the call of execute
Remake ==
    /\ MakeOnly
    /\ pc = "make" /\ Decided(Top)
    /\ Top.remake
    /\ LET t == Top.target
       IN  /\ realmtime' = [realmtime EXCEPT ![t] = mtime[t]]
           /\ mtime' = [mtime EXCEPT ![t] = NoMtime]
           /\ vpathtarget' = [vpathtarget EXCEPT ![t] = t]
           /\ stack' = [stack EXCEPT ![Len(stack)] =
                  IF isdoublecolon(t) \/ commandrule(t) # 0
                  THEN [Top EXCEPT !.stage = "exec"]
                  ELSE [Top EXCEPT !.stage = "ret", !.didanything = TRUE]]
    /\ UNCHANGED <<rules, disk, remade, explicit, goals, pc, err, execcount, lastexit>>

\* Target.make: the rule is not executed
NoRemake ==
    /\ MakeOnly
    /\ pc = "make" /\ Decided(Top)
    /\ ~Top.remake
    /\ stack' = [stack EXCEPT ![Len(stack)] =
           IF isdoublecolon(Top.target) THEN AfterRule(Top, mtime[Top.target])
           ELSE [Top EXCEPT !.stage = "ret"]]
    /\ UNCHANGED <<rules, disk, mtime, vpathtarget, realmtime, remade, explicit,
                   goals, pc, err, execcount, lastexit>>

\* The rule whose execute is called by a frame in stage "exec"
ExecRule(f) == IF isdoublecolon(f.target) THEN f.ri ELSE commandrule(f.target)

\* findmodifiers: the characters +, - and @ (each once) and white space are
\* taken from the front of the command.
RECURSIVE findmodifiers(_, _, _, _)
findmodifiers(command, isHidden, isRecursive, ignoreErrors) ==
    LET end == [command |-> command, isHidden |-> isHidden,
                isRecursive |-> isRecursive, ignoreErrors |-> ignoreErrors]
    IN  IF command = <<>> THEN end
        ELSE IF Head(command) = "@" /\ ~isHidden
        THEN findmodifiers(Tail(command), TRUE, isRecursive, ignoreErrors)
        ELSE IF Head(command) = "+" /\ ~isRecursive
        THEN findmodifiers(Tail(command), isHidden, TRUE, ignoreErrors)
        ELSE IF Head(command) = "-" /\ ~ignoreErrors
        THEN findmodifiers(Tail(command), isHidden, isRecursive, TRUE)
        ELSE IF Head(command) = " "
        THEN findmodifiers(Tail(command), isHidden, isRecursive, ignoreErrors)
        ELSE end

\* The exit statuses a child can have
ExitCodes == {0, 1}

\* failed without the test of ignoreErrors
failed_Always(r, ignoreErrors) == r # 0

\* executecommands: "if r != 0 and not ignoreErrors: raise DataError"
failed(r, ignoreErrors) == r # 0 /\ ~ignoreErrors

\* The time of a file that a command writes: later than every file there was
Now == MaxMtime + 1

\* Target.make after execute returned: the next rule of a double-colon
\* target, or the end
AfterExecute(f) ==
    IF isdoublecolon(f.target)
    THEN AfterRule([f EXCEPT !.didanything = TRUE, !.ci = 1], mtime[f.target])
    ELSE [f EXCEPT !.stage = "ret", !.didanything = TRUE, !.ci = 1]

\* Rule.execute / executecommands: one command line of the rule is run (a
\* rule without command lines returns at once).  A line that is empty after
\* its modifiers is skipped; a command that exits nonzero and has no "-"
\* raises a DataError.
Execute ==
    /\ MakeOnly
    /\ pc = "make" /\ Top.stage = "exec"
    /\ LET t == Top.target
           i == ExecRule(Top)
           cmds == rules[t][i].commands
           next == IF Top.ci < Len(cmds) THEN [Top EXCEPT !.ci = Top.ci + 1]
                   ELSE AfterExecute(Top)
       IN  /\ execcount' = IF Top.ci = 1 THEN [execcount EXCEPT ![t][i] = @ + 1]
                           ELSE execcount
           /\ IF cmds = <<>>
              THEN /\ stack' = [stack EXCEPT ![Len(stack)] = AfterExecute(Top)]
                   /\ UNCHANGED <<pc, err, disk, lastexit>>
              ELSE LET cline == findmodifiers(cmds[Top.ci].text, FALSE, FALSE, FALSE)
                   IN  IF cline.command = <<>>
                       THEN /\ stack' = [stack EXCEPT ![Len(stack)] = next]
                            /\ UNCHANGED <<pc, err, disk, lastexit>>
                       ELSE \E r \in ExitCodes :
                              /\ lastexit' = r
                              /\ disk' = IF r = 0 /\ cmds[Top.ci].touch
                                         THEN [disk EXCEPT ![t] = Now] ELSE disk
                              /\ IF failed(r, cline.ignoreErrors)
                                 THEN /\ pc' = "error" /\ err' = "command"
                                      /\ UNCHANGED stack
                                 ELSE /\ stack' = [stack EXCEPT ![Len(stack)] = next]
                                      /\ UNCHANGED <<pc, err>>
    /\ UNCHANGED <<rules, mtime, vpathtarget, realmtime, remade, explicit, goals>>

\* Target.make: "self.remade = didanything; return didanything"
MakeReturn ==
    /\ MakeOnly
    /\ pc = "make" /\ Top.stage = "ret"
    /\ remade' = [remade EXCEPT ![Top.target] = IF Top.didanything THEN "True" ELSE "False"]
    /\ Return(Top.didanything)
    /\ UNCHANGED <<rules, disk, mtime, vpathtarget, realmtime, explicit, goals,
                   err, execcount, lastexit>>

Goals == <<"a", "b">>

InitMake ==
    /\ rules \in Makefiles
    /\ disk \in [Names -> Mtimes]
    /\ mtime = [t \in Names |-> NoMtime]
    /\ vpathtarget = [t \in Names |-> None]
    /\ realmtime = [t \in Names |-> NoMtime]
    /\ remade = [t \in Names |-> None]
    /\ explicit = finishparsing(rules)
    /\ goals = Goals
    /\ stack = <<>>
    /\ pc = "idle"
    /\ err = None
    /\ execcount = [t \in Names |-> [i \in 1..Len(rules[t]) |-> 0]]
    /\ lastexit = 0 /\ phony = {} /\ implicitrules = <<>> /\ stmts = <<>>
    /\ included = <<>> /\ restarts = 0 /\ status = None /\ remk = <<>>
    /\ ParOff /\ VarOff /\ CondOff /\ FlagOff /\ PureOff

NextMake ==
    \/ StartGoal
    \/ Finish
    \/ MakeCached
    \/ MakeResolve
    \/ CallDep
    \/ NextRule
    \/ Remake
    \/ NoRemake
    \/ Execute
    \/ MakeReturn

SpecMake == InitMake /\ [][NextMake]_vars

\* ------------------------------------------------------------------------
\* Properties of the build engine
\* ------------------------------------------------------------------------
RuleIds(t) == 1..Len(rules[t])

PrereqSet(l) == {l[i] : i \in 1..Len(l)}

AllPrereqs(t) == UNION {PrereqSet(rules[t][i].prerequisites) : i \in RuleIds(t)}

\* d is later than t, for two mtimes (a missing prerequisite counts as later)
Later(d, t) == d = NoMtime \/ (t # NoMtime /\ d > t)

\* C1: rule.execute runs at most once per target and rule, and a make() of a
\* target whose remade is set returns the cached value at once: nothing of the
\* target (remade, mtime, realmtime, vpathtarget, its execute counts) changes
\* any more and the call hands remade to its caller in its first step.
C1_ExecuteAtMostOnce ==
    [][/\ \A t \in Names : \A i \in RuleIds(t) : execcount'[t][i] <= 1
       /\ \A t \in Names : remade[t] # "None" =>
             /\ remade'[t] = remade[t]
             /\ execcount'[t] = execcount[t]
             /\ mtime'[t] = mtime[t] /\ realmtime'[t] = realmtime[t]
             /\ vpathtarget'[t] = vpathtarget[t]
       /\ (pc = "make" /\ Top.stage = "enter" /\ remade[Top.target] # "None") =>
             /\ Len(stack') = Len(stack) - 1
             /\ pc' # "error"
             /\ Len(stack) > 1 =>
                   stack'[Len(stack')].didanything =
                       (stack[Len(stack) - 1].didanything \/ remade[Top.target] = "True")
      ]_vars

\* C1 witness: a target whose rule has been executed is requested again
C1_Witness ==
    /\ pc = "make" /\ Top.stage = "enter"
    /\ remade[Top.target] = "True"
    /\ \E i \in RuleIds(Top.target) : execcount[Top.target][i] = 1

\* C3: when a frame is about to call execute, it is the innermost call (no
\* make of a prerequisite is in progress) and make() has returned normally
\* for every prerequisite of every rule of the target (double-colon: of the
\* rule that is executed).
C3_PrereqsMadeBeforeRecipe ==
    \A k \in 1..Len(stack) :
        stack[k].stage = "exec" =>
            /\ k = Len(stack)
            /\ LET t == stack[k].target
                   ps == IF isdoublecolon(t)
                         THEN PrereqSet(rules[t][stack[k].ri].prerequisites)
                         ELSE AllPrereqs(t)
               IN  \A p \in ps : remade[p] # "None"

\* C3 witness: a recipe starts for a target with two prerequisites
C3_Witness ==
    /\ pc = "make" /\ Top.stage = "exec"
    /\ Cardinality(AllPrereqs(Top.target)) = 2
    /\ \E p \in AllPrereqs(Top.target) : remade[p] = "True"

\* The out-of-date condition of a single-colon target, from the mtime the
\* target had when its make started and the mtimes its prerequisites have
\* after their own make.
OutOfDate(f) ==
    f.mt0 = NoMtime \/ \E p \in AllPrereqs(f.target) : Later(mtime[p], f.mt0)

\* C4: a single-colon target with rules reaches execute only when it is out
\* of date, and when its make is about to return its command rule has been
\* executed exactly if the target was out of date.
C4_SingleColonOutOfDate ==
    \A k \in 1..Len(stack) :
        LET f == stack[k]
            t == f.target
        IN  (Len(rules[t]) > 0 /\ ~isdoublecolon(t)) =>
               /\ f.stage = "exec" => OutOfDate(f)
               /\ f.stage = "ret" =>
                     /\ \A i \in RuleIds(t) :
                           execcount[t][i] = IF rules[t][i].commands # <<>> /\ OutOfDate(f)
                                             THEN 1 ELSE 0

\* C4 witness: an existing target is remade because one prerequisite of one
\* of its two rules is newer, and another existing target is left alone.
C4_Witness ==
    /\ pc = "make" /\ Top.stage = "ret"
    /\ Len(rules[Top.target]) = 2 /\ ~isdoublecolon(Top.target)
    /\ Top.mt0 # NoMtime
    /\ \E i \in RuleIds(Top.target) : execcount[Top.target][i] = 1
    /\ \A p \in AllPrereqs(Top.target) : mtime[p] # NoMtime
    /\ AllPrereqs(Top.target) # {}

\* C5 (as claimed): a rule with prerequisites of a double-colon target is
\* executed only if the target was missing when its make started or one of
\* that rule's own prerequisites is newer than the target.
C5_DoubleColonIndependent ==
    \A k \in 1..Len(stack) :
        LET f == stack[k]
            t == f.target
        IN  (f.stage = "exec" /\ isdoublecolon(t)
                /\ rules[t][f.ri].prerequisites # <<>>) =>
               \/ f.mt0 = NoMtime
               \/ \E p \in PrereqSet(rules[t][f.ri].prerequisites) : Later(mtime[p], f.mt0)

\* The targets reachable from the set S along prerequisite edges (S included)
RECURSIVE ReachFrom(_)
ReachFrom(S) ==
    LET N == S \cup UNION {AllPrereqs(u) : u \in S}
    IN  IF N = S THEN S ELSE ReachFrom(N)

OnCycle(t) == t \in ReachFrom(AllPrereqs(t))

\* The dependency graph reachable from a goal contains a cycle
Cyclic == \E t \in ReachFrom(PrereqSet(Goals)) : OnCycle(t)

\* C6 (as claimed): with a cycle reachable from a goal the invocation ends
\* with the recursive-dependency error; without one no such error is raised.
C6_Original ==
    /\ (pc \in {"done", "error"} /\ Cyclic) => (pc = "error" /\ err = "recursive")
    /\ ~Cyclic => err # "recursive"

\* C6 (amended): with a cycle reachable from a goal the invocation never
\* completes; no target is ever twice among the calls in progress (make
\* does not recurse for ever: the call that would close the cycle raises the
\* recursive-dependency error in its first step); without a cycle no
\* recursive-dependency error is raised.
C6_CycleDetected ==
    /\ pc = "done" => ~Cyclic
    /\ \A i, j \in 1..Len(stack) :
          (i < j /\ stack[i].target = stack[j].target) =>
              (j = Len(stack) /\ stack[j].stage = "enter")
    /\ (pc = "make" /\ Top.stage # "enter") =>
          \A i \in 1..Len(stack) - 1 : stack[i].target # Top.target
    /\ err = "recursive" => Cyclic

\* C6 witness: the recursive-dependency error is raised for a cycle that is
\* reached through a diamond-free chain of three targets
C6_Witness ==
    /\ pc = "error" /\ err = "recursive" /\ Cyclic
    /\ Len(stack) = 4

\* ------------------------------------------------------------------------
\* process.py: ParallelContext.  Every block of code that runs with the lock
\* held is one step; the lock is free between the steps (wait() releases it).
\* ------------------------------------------------------------------------
MaxJobs == 2
MaxCalls == 3

\* CanSpawn with <= for <
CanSpawn_OneMore(tc, jc) == tc <= jc

\* ParallelContext.call: "self.threadcount < self.jcount"
CanSpawn(tc, jc) == tc < jc

WorkerIds == 1..Len(threads)

\* ParallelContext.call, under the lock: the command is appended to pending,
\* one worker waiting for pending is notified, and a new worker thread is
\* started while there are fewer than jcount.
CallBody ==
    /\ counter < MaxCalls
    /\ counter' = counter + 1
    /\ pending' = Append(pending, counter)
    /\ LET woken == IF waitq = <<>>
                    THEN threads
                    ELSE [threads EXCEPT ![Head(waitq)].state = "ready"]
       IN  IF Len(pending') > 0 /\ CanSpawn(threadcount, jcount)
           THEN /\ threadcount' = threadcount + 1
                /\ threads' = Append(woken, [state |-> "ready", idx |-> 0, res |-> 0])
           ELSE /\ threadcount' = threadcount
                /\ threads' = woken
    /\ waitq' = IF waitq = <<>> THEN waitq ELSE Tail(waitq)

\* The engine calls context.call before it enters spin()
InitCall ==
    /\ ParOnly
    /\ main = "init"
    /\ CallBody
    /\ UNCHANGED <<jcount, running, results, main, lresults, hist>>

\* spin(): "self.notifyresult.acquire()"
SpinEnter ==
    /\ ParOnly
    /\ main = "init"
    /\ main' = "top"
    /\ UNCHANGED <<jcount, threadcount, pending, running, results, counter, threads,
                   waitq, lresults, hist>>

\* spin(), top of the loop: the results are taken and the lock is released for
\* the callbacks, or there are none
SpinTop ==
    /\ ParOnly
    /\ main = "top"
    /\ IF Len(results) > 0
       THEN lresults' = results /\ results' = <<>> /\ main' = "callbacks"
       ELSE main' = "check" /\ UNCHANGED <<results, lresults>>
    /\ UNCHANGED <<jcount, threadcount, pending, running, counter, threads, waitq, hist>>

\* spin(): a callback calls context.call (the next command of the rule, or a
\* command of a target that was waiting for this one)
CbCall ==
    /\ ParOnly
    /\ main = "callbacks" /\ lresults # <<>>
    /\ CallBody
    /\ UNCHANGED <<jcount, running, results, main, lresults, hist>>

\* spin(): "cb(res)" returns
CbDone ==
    /\ ParOnly
    /\ main = "callbacks" /\ lresults # <<>>
    /\ lresults' = Tail(lresults)
    /\ hist' = [hist EXCEPT !.called = Append(@, Head(lresults))]
    /\ UNCHANGED <<jcount, threadcount, pending, running, results, counter, threads,
                   waitq, main>>

\* spin(): "cb(res)" raises, and spin re-raises
CbRaise ==
    /\ ParOnly
    /\ main = "callbacks" /\ lresults # <<>>
    /\ main' = "raised"
    /\ hist' = [hist EXCEPT !.called = Append(@, Head(lresults))]
    /\ UNCHANGED <<jcount, threadcount, pending, running, results, counter, threads,
                   waitq, lresults>>

\* spin(): all callbacks are run, "self.notifyresult.acquire()"
CbEnd ==
    /\ ParOnly
    /\ main = "callbacks" /\ lresults = <<>>
    /\ main' = "check"
    /\ UNCHANGED <<jcount, threadcount, pending, running, results, counter, threads,
                   waitq, lresults, hist>>

\* SpinIdle that does not look at the running children
SpinIdle_Pending == Len(pending) = 0 /\ Len(results) = 0

\* spin(): the test that ends the loop
SpinIdle == Len(pending) = 0 /\ running = 0 /\ Len(results) = 0

\* spin(): "exiting spin"
SpinExit ==
    /\ ParOnly
    /\ main = "check" /\ SpinIdle
    /\ main' = "returned"
    /\ UNCHANGED <<jcount, threadcount, pending, running, results, counter, threads,
                   waitq, lresults, hist>>

\* spin(): "self.notifyresult.wait(20)" starts
SpinWait ==
    /\ ParOnly
    /\ main = "check" /\ ~SpinIdle
    /\ main' = "wait"
    /\ UNCHANGED <<jcount, threadcount, pending, running, results, counter, threads,
                   waitq, lresults, hist>>

\* spin(): the 20 seconds of wait(20) pass without a notification
WaitTimeout ==
    /\ ParOnly
    /\ main = "wait"
    /\ main' = "woken"
    /\ UNCHANGED <<jcount, threadcount, pending, running, results, counter, threads,
                   waitq, lresults, hist>>

\* spin(): after wait(20), "if len(self.results) == 0: raise Exception"
SpinWoken ==
    /\ ParOnly
    /\ main = "woken"
    /\ main' = IF Len(results) = 0 THEN "timeout" ELSE "top"
    /\ UNCHANGED <<jcount, threadcount, pending, running, results, counter, threads,
                   waitq, lresults, hist>>

\* The thread in spin() holds the lock: from "self.notifyresult.acquire()"
\* (at the start, after the callbacks, or inside wait(20) when it returns) to
\* the release for the callbacks, the return or the next wait(20).  A thread
\* that was woken or timed out in wait(20) has still to take the lock.
MainLocked == main \in {"top", "check"}

\* No history yet
NoHist == [started |-> <<>>, exits |-> <<>>, called |-> <<>>]

\* _run: "if len(self.pending) == 0: self.notifypending.wait()"
RunWait(th) ==
    /\ ParOnly
    /\ ~MainLocked
    /\ threads[th].state = "ready" /\ Len(pending) = 0
    /\ threads' = [threads EXCEPT ![th].state = "waiting"]
    /\ waitq' = Append(waitq, th)
    /\ UNCHANGED <<jcount, threadcount, pending, running, results, counter, main,
                   lresults, hist>>

\* _run: a command is popped from pending and its child is started
RunPop(th) ==
    /\ ParOnly
    /\ ~MainLocked
    /\ threads[th].state = "ready" /\ Len(pending) > 0
    /\ pending' = Tail(pending)
    /\ running' = running + 1
    /\ threads' = [threads EXCEPT ![th].state = "child", ![th].idx = Head(pending)]
    /\ hist' = [hist EXCEPT !.started = Append(@, Head(pending))]
    /\ UNCHANGED <<jcount, threadcount, results, counter, waitq, main, lresults>>

\* _run: subprocess.call returns, the child has exited with status res
ChildExit(th) ==
    /\ ParOnly
    /\ threads[th].state = "child"
    /\ \E res \in ExitCodes :
          /\ threads' = [threads EXCEPT ![th].state = "reap", ![th].res = res]
          /\ hist' = [hist EXCEPT !.exits = Append(@, [idx |-> threads[th].idx, res |-> res])]
    /\ UNCHANGED <<jcount, threadcount, pending, running, results, counter, waitq,
                   main, lresults>>

\* _run, with the lock again: the result is posted and spin is notified
Reap(th) ==
    /\ ParOnly
    /\ ~MainLocked
    /\ threads[th].state = "reap"
    /\ running' = running - 1
    /\ results' = Append(results, [idx |-> threads[th].idx, res |-> threads[th].res])
    /\ main' = IF main = "wait" THEN "woken" ELSE main
    /\ threads' = [threads EXCEPT ![th].state = "ready"]
    /\ UNCHANGED <<jcount, threadcount, pending, counter, waitq, lresults, hist>>

InitPar ==
    /\ MakeOff /\ VarOff /\ CondOff /\ FlagOff /\ PureOff
    /\ jcount \in 1..MaxJobs
    /\ threadcount = 0
    /\ pending = <<>>
    /\ running = 0
    /\ results = <<>>
    /\ counter = 0
    /\ threads = <<>>
    /\ waitq = <<>>
    /\ main = "init"
    /\ lresults = <<>>
    /\ hist = NoHist

NextPar ==
    \/ InitCall
    \/ SpinEnter
    \/ SpinTop
    \/ CbCall
    \/ CbDone
    \/ CbRaise
    \/ CbEnd
    \/ SpinExit
    \/ SpinWait
    \/ WaitTimeout
    \/ SpinWoken
    \/ \E th \in WorkerIds : RunWait(th)
    \/ \E th \in WorkerIds : RunPop(th)
    \/ \E th \in WorkerIds : ChildExit(th)
    \/ \E th \in WorkerIds : Reap(th)

SpecPar == InitPar /\ [][NextPar]_vars

\* The children that are running now
Children == {th \in WorkerIds : threads[th].state = "child"}

\* C2: at most jcount children run at the same time (the counter running and
\* the children themselves), and at most jcount worker threads exist.
C2_JobCountBound ==
    /\ running <= jcount
    /\ Cardinality(Children) <= running
    /\ threadcount <= jcount
    /\ Len(threads) = threadcount

\* C2 witness: with -j 2, two children run and a third command is pending
C2_Witness ==
    /\ jcount = 2 /\ running = 2 /\ Cardinality(Children) = 2
    /\ Len(pending) > 0 /\ threadcount = jcount

\* ------------------------------------------------------------------------
\* data.py: Variables, Expansion; functions.py: VariableRef, SubstitutionRef,
\* CallFunction; parser.py: setvariable.
\*
\* A text is a sequence of tokens separated by blanks: a word ("lit"), or the
\* characters of a reference to a variable: $(V) ("var"), $(V:from=to)
\* ("subst"), $(call V) ("call").  An expansion is a sequence of elements: a
\* string element holds the characters of one token, a function element is a
\* reference that resolve() follows.
\* ------------------------------------------------------------------------
FLAVOR_RECURSIVE == 0
FLAVOR_SIMPLE == 1
FLAVOR_APPEND == 2

SOURCE_OVERRIDE == 0
SOURCE_COMMANDLINE == 1
SOURCE_MAKEFILE == 2
SOURCE_ENVIRONMENT == 3
SOURCE_AUTOMATIC == 4

\* The None of the triple (None, None, None) that get returns
NoValue == -1

\* The scopes: makefile.variables ("g") and the variables of one target ("t"),
\* Variables(makefile.variables)
Scopes == {"g", "t"}

\* Variables.parent
parent(s) == IF s = "t" THEN "g" ELSE None

VarNames == {"A", "B"}

Tok(k, v) == [k |-> k, v |-> v]

\* What is not in a map; what get returns for a variable that is not set
NotSet == [flavor |-> NoValue, source |-> NoValue, value |-> <<>>]

\* Variables.__init__ of every scope
EmptyMaps == [s \in Scopes |-> [n \in VarNames |-> NotSet]]

\* "name in self._map"
inmap(vm, s, n) == vm[s][n].flavor # NoValue

\* parser.parsemakesyntax of a value: the words are string elements, the
\* references are function elements
parsemakesyntax(text) ==
    [i \in 1..Len(text) |->
        [k |-> IF text[i].k = "lit" THEN "str" ELSE "func", t |-> text[i]]]

\* Expansion.fromstring: all the characters are one string, a "$(V)" in it
\* is not a reference
fromstring(text) == [i \in 1..Len(text) |-> [k |-> "str", t |-> text[i]]]

RECURSIVE get(_, _, _)
\* Variables.get(name, expand=True) in scope s
get(vm, s, name) ==
    IF inmap(vm, s, name)
    THEN LET e == vm[s][name]
             p == IF parent(s) # None THEN get(vm, parent(s), name) ELSE NotSet
         IN  IF e.flavor = FLAVOR_APPEND
             THEN IF p.flavor = NoValue
                  THEN [flavor |-> FLAVOR_RECURSIVE, source |-> e.source,
                        value |-> parsemakesyntax(e.value)]
                  ELSE IF e.source > p.source
                       THEN p
                       ELSE [flavor |-> p.flavor, source |-> p.source,
                             value |-> p.value \o parsemakesyntax(e.value)]
             ELSE IF e.flavor = FLAVOR_RECURSIVE
                  THEN [flavor |-> e.flavor, source |-> e.source,
                        value |-> parsemakesyntax(e.value)]
                  ELSE [flavor |-> e.flavor, source |-> e.source,
                        value |-> fromstring(e.value)]
    ELSE IF parent(s) # None
         THEN get(vm, parent(s), name)
         ELSE NotSet

\* The depth at which the interpreter gives up a recursion (RuntimeError)
RecursionLimit == 4

\* What resolve returns (val), or the exception it raises (err)
Returns(val) == [err |-> None, val |-> val]
Raises(e) == [err |-> e, val |-> <<>>]

\* The words of a substitution reference $(V:x=y)
substfrom == "x"
substto == "y"

\* Pattern.subst of one word for the pattern %x and the replacement %y; no
\* word of the model ends in x but the word x itself
substword(tok) == IF tok = Tok("lit", substfrom) THEN Tok("lit", substto) ELSE tok

\* onsetting that never finds the name
onsetting_Never(vname, setting) == FALSE

\* "vname in setting"
onsetting(vname, setting) == InSeq(vname, setting)

RECURSIVE resolve(_, _, _, _)
RECURSIVE resolvefunction(_, _, _, _)
\* Expansion.resolve: the elements left to right, the first exception ends it
resolve(vm, s, e, setting) ==
    IF e = <<>>
    THEN Returns(<<>>)
    ELSE LET h == IF Head(e).k = "str"
                  THEN Returns(<<Head(e).t>>)
                  ELSE resolvefunction(vm, s, Head(e).t, setting)
         IN  IF h.err # None
             THEN h
             ELSE LET r == resolve(vm, s, Tail(e), setting)
                  IN  IF r.err # None THEN r ELSE Returns(h.val \o r.val)

\* VariableRef.resolve, SubstitutionRef.resolve, CallFunction.resolve of the
\* reference f with the variables of scope s.  (The scope that call creates
\* binds only the names 0, 1, ..., which are not names of the model.)
resolvefunction(vm, s, f, setting) ==
    IF onsetting(f.v, setting)
    THEN Raises("DataError")
    ELSE LET g == get(vm, s, f.v)
         IN  IF g.flavor = NoValue
             THEN Returns(<<>>)
             ELSE IF Len(setting) >= RecursionLimit
                  THEN Raises("RuntimeError")
                  ELSE LET r == resolve(vm, s, g.value, Append(setting, f.v))
                       IN  IF f.k = "subst" /\ r.err = None
                           THEN Returns([i \in 1..Len(r.val) |-> substword(r.val[i])])
                           ELSE r

\* What $(name) resolves to with the variables of scope s
valueof(vm, s, name) == resolvefunction(vm, s, Tok("var", name), <<>>)

\* refuses with the comparison the other way round
refuses_Inverted(source, prevsource) == prevsource # NoValue /\ source < prevsource

\* Variables.set: "prevsource is not None and source > prevsource"
refuses(source, prevsource) == prevsource # NoValue /\ source > prevsource

\* Variables.set: the maps after self.set(name, flavor, source, value) in scope s
set(vm, s, name, flavor, source, value) ==
    IF refuses(source, get(vm, s, name).source)
    THEN vm
    ELSE [vm EXCEPT ![s][name] = [flavor |-> flavor, source |-> source, value |-> value]]

\* append that stores the fragment as it is, whatever the flavor
immediate_Never(prevflavor) == FALSE

\* Variables.append: "prevflavor == self.FLAVOR_SIMPLE"
immediate(prevflavor) == prevflavor = FLAVOR_SIMPLE

\* Variables.append: the maps after self.append(name, source, value, variables,
\* makefile) in scope s, where variables is scope rs; or the exception
append(vm, s, name, source, value, rs) ==
    IF inmap(vm, s, name)
    THEN LET prev == vm[s][name]
             r == IF immediate(prev.flavor)
                  THEN resolve(vm, rs, parsemakesyntax(value), <<name>>)
                  ELSE Returns(value)
         IN  IF source > prev.source
             THEN [err |-> None, vm |-> vm]
             ELSE IF r.err # None
                  THEN [err |-> r.err, vm |-> vm]
                  ELSE [err |-> None,
                        vm |-> [vm EXCEPT ![s][name].value = prev.value \o r.val]]
    ELSE [err |-> None,
          vm |-> [vm EXCEPT ![s][name] =
                     [flavor |-> FLAVOR_APPEND, source |-> source, value |-> value]]]

\* parser.setvariable(makefile.variables, the variables of scope s, makefile,
\* vname, token, ...): the maps afterwards, or the exception
setvariable(vm, s, vname, token, text, source) ==
    IF token = "+="
    THEN append(vm, s, vname, source, text, "g")
    ELSE IF token = "?="
    THEN IF get(vm, s, vname).flavor # NoValue
         THEN [err |-> None, vm |-> vm]
         ELSE [err |-> None,
               vm |-> set(vm, s, vname, FLAVOR_RECURSIVE, source, text)]
    ELSE IF token = "="
    THEN [err |-> None, vm |-> set(vm, s, vname, FLAVOR_RECURSIVE, source, text)]
    ELSE LET r == resolve(vm, "g", parsemakesyntax(text), <<>>)
         IN  IF r.err # None
             THEN [err |-> r.err, vm |-> vm]
             ELSE [err |-> None,
                   vm |-> set(vm, s, vname, FLAVOR_SIMPLE, source, r.val)]

\* ---- the calls of Variables.set and Variables.append ----
MaxSets == 3

Sources == SOURCE_OVERRIDE..SOURCE_AUTOMATIC

\* Variables.append: "assert source in (...)"
AppendSources == {SOURCE_OVERRIDE, SOURCE_MAKEFILE, SOURCE_AUTOMATIC}

\* Variables.set: "assert flavor in (...)"
SetFlavors == {FLAVOR_RECURSIVE, FLAVOR_SIMPLE}

SetNames == {"A"}

SetTexts == {<<Tok("lit", "hello")>>, <<Tok("lit", "world")>>}

\* No call of set yet
NoCall == [op |-> "none", scope |-> "g", name |-> "A", flavor |-> NoValue,
           source |-> NoValue, value |-> <<>>, refused |-> FALSE]

\* A call of Variables.set on the variables of scope s
SetVar(s, name, flavor, source, value) ==
    /\ VarOnly
    /\ verr = None /\ nops < MaxSets
    /\ varmap' = set(varmap, s, name, flavor, source, value)
    /\ nops' = nops + 1
    /\ result' = [op |-> "set", scope |-> s, name |-> name, flavor |-> flavor,
                  source |-> source, value |-> value,
                  refused |-> refuses(source, get(varmap, s, name).source)]
    /\ UNCHANGED <<script, verr>>

\* A call of Variables.append on the variables of scope s
AppendVar(s, name, source, value) ==
    /\ VarOnly
    /\ verr = None /\ nops < MaxSets
    /\ LET out == append(varmap, s, name, source, value, "g")
       IN  varmap' = out.vm /\ verr' = out.err
    /\ nops' = nops + 1
    /\ result' = [NoCall EXCEPT !.op = "append"]
    /\ UNCHANGED script

InitSet ==
    /\ MakeOff /\ ParOff /\ CondOff /\ FlagOff /\ PureOff
    /\ varmap = EmptyMaps
    /\ nops = 0
    /\ script = 0
    /\ result = NoCall
    /\ verr = None

NextSet ==
    \/ \E s \in Scopes, name \in SetNames, flavor \in SetFlavors,
          source \in Sources, value \in SetTexts :
          SetVar(s, name, flavor, source, value)
    \/ \E s \in Scopes, name \in SetNames, source \in AppendSources,
          value \in SetTexts :
          AppendVar(s, name, source, value)

SpecSet == InitSet /\ [][NextSet]_vars

\* The priority of the sources, highest first
PriorityOrder == <<SOURCE_OVERRIDE, SOURCE_COMMANDLINE, SOURCE_MAKEFILE,
                   SOURCE_ENVIRONMENT, SOURCE_AUTOMATIC>>

Rank(source) == CHOOSE i \in 1..Len(PriorityOrder) : PriorityOrder[i] = source

\* a has a strictly lower priority than b
LowerPriority(a, b) == Rank(a) > Rank(b)

\* V is bound as seen from scope s
Bound(vm, s, name) == get(vm, s, name).source # NoValue

\* C7: a set of V from a source of strictly lower priority than the source
\* of V's binding as seen from the scope is refused and leaves the flavor,
\* the source and the value of V unchanged; any other set binds V to the new
\* flavor, source and value; hence a set from S1 followed by a set from a
\* lower-priority S2 leaves get(V).source = S1.
C7_SetRefusesLowerPriority ==
    [][(result'.op = "set" /\ nops' = nops + 1) =>
         LET s == result'.scope
             name == result'.name
             source == result'.source
             lower == /\ Bound(varmap, s, name)
                      /\ LowerPriority(source, get(varmap, s, name).source)
         IN  /\ SetVar(s, name, result'.flavor, source, result'.value)
             /\ lower => /\ get(varmap', s, name) = get(varmap, s, name)
                         /\ varmap' = varmap
             /\ ~lower => /\ get(varmap', s, name).flavor = result'.flavor
                          /\ get(varmap', s, name).source = source
                          /\ varmap'[s][name].value = result'.value
             /\ (/\ result.op = "set" /\ ~result.refused
                 /\ result.scope = s /\ result.name = name
                 /\ LowerPriority(source, result.source))
                => get(varmap', s, name).source = result.source
    ]_vars

\* C7 witness: V was set from the makefile, then a set from the environment
\* in the target's scope was refused, V being bound in the enclosing scope
C7_Witness ==
    /\ result.op = "set" /\ result.refused /\ result.scope = "t"
    /\ result.source = SOURCE_ENVIRONMENT
    /\ ~inmap(varmap, "t", "A")
    /\ get(varmap, "t", "A").source = SOURCE_MAKEFILE

\* ---- the assignments of a makefile ----
MaxStmts == 3

hello == <<Tok("lit", "hello")>>
world == <<Tok("lit", "world")>>
base == <<Tok("lit", "base")>>
refA == <<Tok("var", "A")>>

\* The assignment tokens of parser.setvariable
AssignTokens == {":=", "=", "+=", "?="}

AssignTexts == {hello, world, refA}

\* A := hello, A += world, B = base, B += $(A)
Example == << <<"g", "A", ":=", hello>>, <<"g", "A", "+=", world>>,
              <<"g", "B", "=", base>>, <<"g", "B", "+=", refA>> >>

\* parsestream reads one assignment, "vname token text" for the makefile's
\* variables (s = "g") or "target: vname token text" for the target's (s = "t").
\* script >= 0: the makefile is Example; script = -1: it is any makefile of
\* at most MaxStmts assignments.
Assign(s, vname, token, text) ==
    /\ VarOnly
    /\ verr = None
    /\ \/ script = -1 /\ nops < MaxStmts /\ text \in AssignTexts
       \/ /\ script >= 0 /\ script < Len(Example)
          /\ <<s, vname, token, text>> = Example[script + 1]
    /\ LET out == setvariable(varmap, s, vname, token, text, SOURCE_MAKEFILE)
       IN  varmap' = out.vm /\ verr' = out.err
    /\ nops' = nops + 1
    /\ script' = IF script = -1 THEN -1 ELSE script + 1
    /\ UNCHANGED result

InitAssign ==
    /\ MakeOff /\ ParOff /\ CondOff /\ FlagOff /\ PureOff
    /\ varmap = EmptyMaps
    /\ nops = 0
    /\ script \in {-1, 0}
    /\ result = NoCall
    /\ verr = None

NextAssign ==
    \E s \in Scopes, vname \in VarNames, token \in AssignTokens,
       text \in AssignTexts \cup {base} :
       Assign(s, vname, token, text)

SpecAssign == InitAssign /\ [][NextAssign]_vars

\* No assignment of the step touched the binding of V that scope s sees
SameBinding(s, V) ==
    \A q \in Scopes : (q = s \/ q = parent(s)) => varmap'[q][V] = varmap[q][V]

\* What the fragment resolves to at the time of the assignment
FragmentNow(text) == resolve(varmap, "g", parsemakesyntax(text), <<>>).val

\* The fragment is at the end of what get returns, as references to follow
Unexpanded(vm, s, V, text) ==
    LET e == get(vm, s, V).value
    IN  /\ Len(e) >= Len(text)
        /\ SubSeq(e, Len(e) - Len(text) + 1, Len(e)) = parsemakesyntax(text)

\* What C9 says of "V += text" in scope s, where simple says whether the
\* variable appended to counts as a simple variable
AppendKeepsFlavor(s, V, text, simple) ==
    LET old == varmap[s][V]
        new == varmap'[s][V]
    IN  verr' = None =>
          /\ get(varmap', s, V).flavor
                = IF Bound(varmap, s, V)
                  THEN get(varmap, s, V).flavor
                  ELSE FLAVOR_RECURSIVE
          /\ simple =>
                valueof(varmap', s, V)
                   = Returns(valueof(varmap, s, V).val \o FragmentNow(text))
          /\ ~simple =>
                /\ new.flavor = IF inmap(varmap, s, V) THEN old.flavor ELSE FLAVOR_APPEND
                /\ new.value = old.value \o text
                /\ Unexpanded(varmap', s, V, text)

\* A simple variable keeps its value when other variables change
SimpleIsStable(s, V, simple) ==
    (simple /\ SameBinding(s, V)) => valueof(varmap', s, V) = valueof(varmap, s, V)

\* V is simple as scope s sees it
SeenSimple(s, V) == get(varmap, s, V).flavor = FLAVOR_SIMPLE

\* V is simple and bound in scope s itself
LocalSimple(s, V) == varmap[s][V].flavor = FLAVOR_SIMPLE

\* The example of the claim
ExampleHolds ==
    script = Len(Example) =>
       /\ verr = None
       /\ valueof(varmap, "g", "A") = Returns(hello \o world)
       /\ valueof(varmap, "g", "B") = Returns(base \o hello \o world)

\* C9 as stated: += keeps the flavor of the binding the scope sees; the
\* fragment appended to a simple variable is expanded at once and the value no
\* longer changes with the variables it mentions; appended to a recursive
\* variable, or with no binding in any scope, it is stored unexpanded.
C9_Original ==
    /\ []ExampleHolds
    /\ [][/\ \A s \in Scopes, V \in VarNames, text \in AssignTexts \cup {base} :
                Assign(s, V, "+=", text) =>
                   AppendKeepsFlavor(s, V, text, SeenSimple(s, V))
          /\ \A s \in Scopes, V \in VarNames :
                SimpleIsStable(s, V, SeenSimple(s, V))
       ]_vars

\* C9, amended: += keeps the flavor of the binding that the scope itself
\* holds: the fragment appended to a simple variable of the same scope is
\* expanded at once and the value no longer changes with the variables it
\* mentions; appended to a recursive variable of the same scope it is stored
\* unexpanded; when the scope holds no binding of the name the fragment is
\* stored unexpanded as an append entry, and the lookup gives the flavor of
\* the enclosing binding, or recursive when there is none, with the fragment
\* as references that every access expands again.
C9_AppendKeepsFlavor ==
    /\ []ExampleHolds
    /\ [][/\ \A s \in Scopes, V \in VarNames, text \in AssignTexts \cup {base} :
                Assign(s, V, "+=", text) =>
                   AppendKeepsFlavor(s, V, text, LocalSimple(s, V))
          /\ \A s \in Scopes, V \in VarNames :
                SimpleIsStable(s, V, LocalSimple(s, V))
       ]_vars

\* C9 witness: the example was parsed, A is simple and holds the expanded
\* "hello world", B is recursive and holds "base $(A)"
C9_Witness ==
    /\ script = Len(Example) /\ verr = None
    /\ varmap["g"]["A"] = [flavor |-> FLAVOR_SIMPLE, source |-> SOURCE_MAKEFILE,
                           value |-> hello \o world]
    /\ varmap["g"]["B"] = [flavor |-> FLAVOR_RECURSIVE, source |-> SOURCE_MAKEFILE,
                           value |-> base \o refA]

\* ---- resolving the variables of a makefile ----
MaxElems == 2

RefKinds == {"var", "subst", "call"}

\* The tokens of the values: the word x and every reference to a variable
RefToks == {Tok("lit", substfrom)} \cup {Tok(k, n) : k \in RefKinds, n \in VarNames}

RefTexts == SeqsUpTo(RefToks, MaxElems)

\* The bindings of a name after "name = text": not set, or recursive
RecursiveBindings ==
    {NotSet} \cup {[flavor |-> FLAVOR_RECURSIVE, source |-> SOURCE_MAKEFILE,
                    value |-> text] : text \in RefTexts}

\* The bindings of A in the target's scope: not set, or the append entry of
\* "target: A += $(B)"
TargetBindings ==
    {NotSet, [flavor |-> FLAVOR_APPEND, source |-> SOURCE_MAKEFILE,
              value |-> <<Tok("var", "B")>>]}

NotResolved == [scope |-> None, name |-> None, out |-> Returns(<<>>)]

\* The maps after the makefile was parsed
InitResolve ==
    /\ MakeOff /\ ParOff /\ CondOff /\ FlagOff /\ PureOff
    /\ \E a \in RecursiveBindings, b \in RecursiveBindings, ta \in TargetBindings :
          varmap = [s \in Scopes |->
                      IF s = "g"
                      THEN [n \in VarNames |-> IF n = "A" THEN a ELSE b]
                      ELSE [n \in VarNames |-> IF n = "A" THEN ta ELSE NotSet]]
    /\ nops = 0
    /\ script = -1
    /\ result = NotResolved
    /\ verr = None

\* $(name) is resolved with the variables of scope s (a recipe of the target,
\* or a line of the makefile)
ResolveVar(s, name) ==
    /\ VarOnly
    /\ result = NotResolved
    /\ result' = [scope |-> s, name |-> name, out |-> valueof(varmap, s, name)]
    /\ UNCHANGED <<varmap, nops, script, verr>>

\* The target's scope binds only A
ResolvePoints == {<<"g", "A">>, <<"g", "B">>, <<"t", "A">>}

NextResolve == \E p \in ResolvePoints : ResolveVar(p[1], p[2])

SpecResolve == InitResolve /\ [][NextResolve]_vars

\* The names that the value of V refers to, as scope s sees V
RefersTo(s, V) ==
    LET e == get(varmap, s, V).value
    IN  {e[i].t.v : i \in {j \in 1..Len(e) : e[j].k = "func"}}

RECURSIVE ChainFrom(_, _, _)
\* The names reached from the names in S by chains of at most n references
ChainFrom(s, S, n) ==
    IF n = 0 THEN S
    ELSE ChainFrom(s, S \cup UNION {RefersTo(s, V) : V \in S}, n - 1)

\* The value of V refers to V, directly or through other variables
RefersToItself(s, V) == V \in ChainFrom(s, RefersTo(s, V), Cardinality(VarNames))

\* C8: resolving a variable whose value refers to itself, directly or through
\* a chain of variable references, substitution references and calls, raises
\* a data error and the recursion never reaches the interpreter's limit; a
\* data error is raised only when the variable or a variable it refers to
\* refers to itself.
C8_SelfReferenceRaises ==
    result # NotResolved =>
       LET s == result.scope
           V == result.name
       IN  /\ RefersToItself(s, V) => result.out.err = "DataError"
           /\ result.out.err # "RuntimeError"
           /\ result.out.err = "DataError" =>
                 \E W \in ChainFrom(s, {V}, Cardinality(VarNames)) : RefersToItself(s, W)

\* C8 witness: A refers to B by a substitution reference, B to A by a call,
\* and resolving A raised the data error
C8_Witness ==
    /\ result # NotResolved /\ result.scope = "g" /\ result.name = "A"
    /\ varmap["g"]["A"].value = <<Tok("lit", "x"), Tok("subst", "B")>>
    /\ varmap["g"]["B"].value = <<Tok("call", "A")>>
    /\ result.out.err = "DataError"

\* ------------------------------------------------------------------------
\* parser.py: Condition and the conditionals of parsestream.
\*
\* A line is a conditional ("if": ifeq, ifneq, ifdef, ifndef), an else with
\* a conditional ("elif"), a plain else, an endif, a rule, an assignment, or
\* a line that begins with a tab and holds an assignment ("tab").  cond is
\* what the condition of the line gives if it is evaluated.  Lines that begin
\* with a tab and hold a directive, define and include are not modelled.
\* ------------------------------------------------------------------------
MaxLines == 5

LineKinds == {"if", "elif", "else", "endif", "rule", "assign", "tab"}

Lines == {[kind |-> k, cond |-> c] : k \in {"if", "elif"}, c \in BOOLEAN}
            \cup {[kind |-> k, cond |-> FALSE] : k \in LineKinds \ {"if", "elif"}}

\* Condition.__init__
Condition(active) == [active |-> active, everactive |-> active]

\* makeactive that forgets that a branch was active
makeactive_Forgets(c, active) == [active |-> active, everactive |-> c.everactive \/ active]

\* Condition.makeactive
makeactive(c, active) ==
    IF c.everactive
    THEN [c EXCEPT !.active = FALSE]
    ELSE [active |-> active, everactive |-> active]

\* "any((not c.active for c in stack))"
anyinactive(cs) == \E i \in 1..Len(cs) : ~cs[i].active

\* parsestream: the dummy condition pushed for a conditional in an inactive
\* branch
dummy == Condition(TRUE)

\* SyntaxError(message, loc) raised for the line n
SyntaxError(n) == [class |-> "SyntaxError", line |-> n]

\* What "condstack[-1].loc" raises: Condition.__init__ takes loc and does not
\* keep it
NoLoc == [class |-> "AttributeError", line |-> 0]

\* parsestream has read the line l
ReadLine(l) ==
    /\ CondOnly
    /\ cstate = "parsing" /\ Len(lines) < MaxLines
    /\ lines' = Append(lines, l)
    /\ lineno' = lineno + 1

\* parsestream: a line that begins with a tab while there is a current rule
RecipeLine(l) ==
    /\ ReadLine(l)
    /\ l.kind = "tab" /\ currule
    /\ processed' = IF anyinactive(condstack) THEN processed
                    ELSE processed \cup {lineno'}
    /\ UNCHANGED <<condstack, evaluated, currule, cstate, cerr>>

\* The line is a makefile line
MakefileLine(l) == ~(l.kind = "tab" /\ currule)

\* parsestream: "if kword == 'endif'"
Endif(l) ==
    /\ ReadLine(l)
    /\ l.kind = "endif"
    /\ IF Len(condstack) = 0
       THEN cstate' = "error" /\ cerr' = SyntaxError(lineno') /\ UNCHANGED condstack
       ELSE /\ cstate' = cstate /\ cerr' = cerr
            /\ condstack' = SubSeq(condstack, 1, Len(condstack) - 1)
    /\ UNCHANGED <<processed, evaluated, currule>>

\* parsestream: "if kword == 'else'", no conditional after it
Else(l) ==
    /\ ReadLine(l)
    /\ l.kind = "else"
    /\ IF Len(condstack) = 0
       THEN cstate' = "error" /\ cerr' = SyntaxError(lineno') /\ UNCHANGED condstack
       ELSE /\ cstate' = cstate /\ cerr' = cerr
            /\ condstack' = [condstack EXCEPT
                               ![Len(condstack)] = makeactive(@, TRUE)]
    /\ UNCHANGED <<processed, evaluated, currule>>

\* parsestream: "if kword == 'else'", a conditional after it
ElseIf(l) ==
    /\ ReadLine(l)
    /\ l.kind = "elif"
    /\ IF Len(condstack) = 0
       THEN cstate' = "error" /\ cerr' = SyntaxError(lineno')
            /\ UNCHANGED <<condstack, evaluated>>
       ELSE /\ cstate' = cstate /\ cerr' = cerr
            /\ IF anyinactive(SubSeq(condstack, 1, Len(condstack) - 1))
               THEN UNCHANGED <<condstack, evaluated>>
               ELSE /\ evaluated' = evaluated \cup {lineno'}
                    /\ condstack' = [condstack EXCEPT
                                       ![Len(condstack)] = makeactive(@, l.cond)]
    /\ UNCHANGED <<processed, currule>>

\* parsestream: "if kword in conditionkeywords"
Conditional(l) ==
    /\ ReadLine(l)
    /\ l.kind = "if"
    /\ IF anyinactive(condstack)
       THEN condstack' = Append(condstack, dummy) /\ UNCHANGED evaluated
       ELSE /\ evaluated' = evaluated \cup {lineno'}
            /\ condstack' = Append(condstack, Condition(l.cond))
    /\ UNCHANGED <<processed, currule, cstate, cerr>>

\* parsestream: "skipping line because of active conditions"
SkipLine(l) ==
    /\ ReadLine(l)
    /\ l.kind \in {"rule", "assign", "tab"} /\ MakefileLine(l)
    /\ anyinactive(condstack)
    /\ UNCHANGED <<condstack, processed, evaluated, currule, cstate, cerr>>

\* parsestream: an assignment or a rule is processed; "the current rule is
\* over", and a rule is the new current rule
Statement(l) ==
    /\ ReadLine(l)
    /\ l.kind \in {"rule", "assign", "tab"} /\ MakefileLine(l)
    /\ ~anyinactive(condstack)
    /\ processed' = processed \cup {lineno'}
    /\ currule' = (l.kind = "rule")
    /\ UNCHANGED <<condstack, evaluated, cstate, cerr>>

\* parsestream: the end of the stream, "raise SyntaxError("Condition never
\* terminated with endif", condstack[-1].loc)"
EndOfStream ==
    /\ CondOnly
    /\ cstate = "parsing"
    /\ cstate' = IF Len(condstack) > 0 THEN "error" ELSE "done"
    /\ cerr' = IF Len(condstack) > 0 THEN NoLoc ELSE cerr
    /\ UNCHANGED <<lines, lineno, condstack, processed, evaluated, currule>>

InitCond ==
    /\ MakeOff /\ ParOff /\ VarOff /\ FlagOff /\ PureOff
    /\ lines = <<>>
    /\ lineno = 0
    /\ condstack = <<>>
    /\ processed = {}
    /\ evaluated = {}
    /\ currule = FALSE
    /\ cstate = "parsing"
    /\ cerr = None

NextCond ==
    \/ \E l \in Lines : RecipeLine(l)
    \/ \E l \in Lines : Endif(l)
    \/ \E l \in Lines : Else(l)
    \/ \E l \in Lines : ElseIf(l)
    \/ \E l \in Lines : Conditional(l)
    \/ \E l \in Lines : SkipLine(l)
    \/ \E l \in Lines : Statement(l)
    \/ EndOfStream

SpecCond == InitCond /\ [][NextCond]_vars

\* ---- what the conditionals of the lines read so far mean ----
\* The number of conditionals that are open before line i
Depth(i) ==
    Cardinality({j \in 1..(i - 1) : lines[j].kind = "if"})
       - Cardinality({j \in 1..(i - 1) : lines[j].kind = "endif"})

\* The conditional that opened the chain around line i at nesting level n
Opener(i, n) ==
    CHOOSE j \in 1..(i - 1) :
       /\ lines[j].kind = "if" /\ Depth(j) = n - 1
       /\ \A k \in (j + 1)..(i - 1) : ~(lines[k].kind = "if" /\ Depth(k) = n - 1)

\* Line j starts a branch of the chain at level n that line o opened
StartsBranch(j, o, n) ==
    j = o \/ (j > o /\ lines[j].kind \in {"elif", "else"} /\ Depth(j) = n)

\* The line that starts the branch around line i at nesting level n
BranchOf(i, n) ==
    CHOOSE j \in Opener(i, n)..(i - 1) :
       /\ StartsBranch(j, Opener(i, n), n)
       /\ \A k \in (j + 1)..(i - 1) : ~StartsBranch(k, Opener(i, n), n)

\* The condition of the branch that line j starts; a plain else has none
Holds(j) == lines[j].kind = "else" \/ lines[j].cond

\* The branch around line i at level n is the branch of its chain to process:
\* the first one whose condition is true, or the plain else after none
Chosen(i, n) ==
    /\ Holds(BranchOf(i, n))
    /\ \A j \in Opener(i, n)..(BranchOf(i, n) - 1) :
          StartsBranch(j, Opener(i, n), n) => ~Holds(j)

\* Line i is in no inactive branch of the n chains around it
InActiveBranches(i, n) == \A m \in 1..n : Chosen(i, m)

\* The level of the chains around line i that line i is not itself part of
Around(i) == IF lines[i].kind = "elif" THEN Depth(i) - 1 ELSE Depth(i)

\* C10: the lines processed are the rules, assignments and recipe lines whose
\* branch, in every chain around them, is the first branch whose condition is
\* true or the plain else after no such branch; so at most one branch of a
\* chain has lines processed and no line inside an inactive branch is
\* processed, and no condition inside an inactive branch is evaluated.
C10_OneBranchProcessed ==
    /\ processed = {i \in 1..Len(lines) :
                      /\ lines[i].kind \in {"rule", "assign", "tab"}
                      /\ InActiveBranches(i, Depth(i))}
    /\ \A i \in processed, j \in processed :
          \A n \in 1..Depth(i) :
             (n <= Depth(j) /\ Opener(i, n) = Opener(j, n))
                => BranchOf(i, n) = BranchOf(j, n)
    /\ \A i \in evaluated : InActiveBranches(i, Around(i))

\* C10 witness: a conditional with a false condition and its else, both
\* inside an inactive branch; the condition was not evaluated and the line in
\* the else was not processed
C10_Witness ==
    /\ Len(lines) = 5
    /\ lines[1] = [kind |-> "if", cond |-> FALSE]
    /\ lines[2] = [kind |-> "if", cond |-> FALSE]
    /\ lines[3].kind = "else"
    /\ lines[4].kind = "assign"
    /\ lines[5].kind = "endif"
    /\ processed = {}
    /\ evaluated = {1}

\* ------------------------------------------------------------------------
\* The build engine with phony targets, pattern rules and recipes of several
\* command lines
\* ------------------------------------------------------------------------
MaxCmds == 2

\* The command lines: with and without the modifiers - and @, and a command
\* that writes the target's file
CommandLines ==
    {Plain, Line(<<"cmd">>, TRUE), Line(<<"-", "cmd">>, FALSE),
     Line(<<"@", "-", "cmd">>, FALSE)}

Recipes == {c \in SeqsUpTo(CommandLines, MaxCmds) : Len(c) >= 1}

\* The pattern rules: %x: %, the same as a terminal (double-colon) rule,
\* %xx: %x, %x: % without commands, f%: f% (every file made from
\* itself), and %xx: %x %xx (two prerequisites, the second the target)
PatternRules ==
    {PatternRule(Pattern(<<>>, <<"x">>), <<Pattern(<<>>, <<>>)>>, FALSE, <<Plain>>),
     PatternRule(Pattern(<<>>, <<"x">>), <<Pattern(<<>>, <<>>)>>, TRUE, <<Plain>>),
     PatternRule(Pattern(<<>>, <<"x", "x">>), <<Pattern(<<>>, <<"x">>)>>, FALSE, <<Plain>>),
     PatternRule(Pattern(<<>>, <<"x">>), <<Pattern(<<>>, <<>>)>>, FALSE, <<>>),
     PatternRule(Pattern(<<"f">>, <<>>), <<Pattern(<<"f">>, <<>>)>>, FALSE, <<Plain>>),
     PatternRule(Pattern(<<>>, <<"x", "x">>),
                 <<Pattern(<<>>, <<"x">>), Pattern(<<>>, <<"x", "x">>)>>, FALSE, <<Plain>>)}

\* The makefile as parsed: the rules of the targets, the pattern rules and
\* the prerequisites of .PHONY
Parsed(rs, irs, ph) == [rules |-> rs, implicitrules |-> irs, phony |-> ph]

NoRules == [t \in Names |-> <<>>]

\* a: b and b: with recipes, and .PHONY over a and b
PhonyInputs ==
    {Parsed([NoRules EXCEPT !["a"] = <<Rule(<<"b">>, FALSE, <<Plain>>)>>,
                            !["b"] = <<Rule(<<>>, FALSE, <<Plain>>)>>], <<>>, ph) :
        ph \in SUBSET {"a", "b"}}

\* Up to MaxRules pattern rules; a has no rule, or rules with and without
\* commands (the prerequisite c), single- or double-colon
ImplicitInputs ==
    {Parsed([NoRules EXCEPT !["a"] = ra], irs, {}) :
        ra \in {<<>>,
                <<Rule(<<"c">>, FALSE, <<>>)>>,
                <<Rule(<<"c">>, TRUE, <<>>)>>,
                <<Rule(<<>>, FALSE, <<Plain>>)>>,
                <<Rule(<<"c">>, FALSE, <<>>), Rule(<<>>, FALSE, <<Plain>>)>>,
                <<Rule(<<>>, FALSE, <<Plain>>), Rule(<<"c">>, FALSE, <<Plain>>)>>},
        irs \in SeqsUpTo(PatternRules, MaxRules)}

\* a: b with a recipe of one line, b: with any recipe
RecipeInputs ==
    {Parsed([NoRules EXCEPT !["a"] = <<Rule(<<"b">>, FALSE, <<ca>>)>>,
                            !["b"] = <<Rule(<<>>, FALSE, cb)>>], <<>>, {}) :
        ca \in {Plain, Line(<<"cmd">>, TRUE)}, cb \in Recipes}

BuildInputs == PhonyInputs \cup ImplicitInputs \cup RecipeInputs

\* make.py up to the making of the goals: the makefile is parsed, no included
\* makefile was remade
InitBuild ==
    /\ \E x \in BuildInputs :
          /\ rules = x.rules /\ implicitrules = x.implicitrules /\ phony = x.phony
    /\ disk \in [Names -> Mtimes]
    /\ mtime = [t \in Names |-> NoMtime]
    /\ vpathtarget = [t \in Names |-> None]
    /\ realmtime = [t \in Names |-> NoMtime]
    /\ remade = [t \in Names |-> None]
    /\ explicit = [t \in Names |-> finishparsing(rules)[t] \/ t \in phony]
    /\ goals = Goals
    /\ stack = <<>>
    /\ pc = "idle"
    /\ err = None
    /\ execcount = [t \in Names |-> [i \in 1..Len(rules[t]) |-> 0]]
    /\ lastexit = 0 /\ stmts = <<>>
    /\ included = <<>> /\ restarts = 0 /\ status = None /\ remk = <<>>
    /\ ParOff /\ VarOff /\ CondOff /\ FlagOff /\ PureOff

\* ------------------------------------------------------------------------
\* make.py: the main script
\* ------------------------------------------------------------------------
\* The class of the exception behind each error
ExceptionClass(e) ==
    IF e \in ResolutionErrors THEN "ResolutionError"
    ELSE IF e \in {"multiple", "command", "mixed", "noinclude"} THEN "DataError"
    ELSE IF e = "syntax" THEN "SyntaxError"
    ELSE "NotImplementedError"

\* class ResolutionError(DataError)
IsInstance(c, d) == c = d \/ (c = "ResolutionError" /\ d = "DataError")

\* make.py: "except (DataError, SyntaxError, subprocess.CalledProcessError), e"
caught(e) ==
    \E d \in {"DataError", "SyntaxError", "CalledProcessError"} :
        IsInstance(ExceptionClass(e), d)

\* make.py: an exception left the try block: the except clause prints it and
\* exits with 2, any other exception ends the interpreter with a traceback
\* and status 1
ExitError ==
    /\ pc = "error"
    /\ pc' = "exited"
    /\ status' = IF caught(err) THEN "2" ELSE "1"
    /\ UNCHANGED <<rules, disk, mtime, vpathtarget, realmtime, remade, explicit,
                   goals, stack, err, execcount, lastexit>>
    /\ UNCHANGED <<phony, implicitrules, stmts, included, restarts, remk>>
    /\ UNCHANGED <<parvars, varvars, condvars, flagvars, purevars>>

\* make.py: the end of the script
ExitOk ==
    /\ pc = "done"
    /\ pc' = "exited"
    /\ status' = "0"
    /\ UNCHANGED <<rules, disk, mtime, vpathtarget, realmtime, remade, explicit,
                   goals, stack, err, execcount, lastexit>>
    /\ UNCHANGED <<phony, implicitrules, stmts, included, restarts, remk>>
    /\ UNCHANGED <<parvars, varvars, condvars, flagvars, purevars>>

\* The making of the goals, to the end of the invocation
NextBuild == NextMake \/ ExitError \/ ExitOk

SpecBuild == InitBuild /\ [][NextBuild]_vars

\* C11 (as claimed): a prerequisite of .PHONY that has been resolved has its
\* own name as path and no mtime, whatever is on disk, and when its make
\* returns its rule with commands has been executed.
C11_PhonyAlwaysOutOfDate ==
    /\ \A t \in phony : vpathtarget[t] # None =>
          (vpathtarget[t] = t /\ mtime[t] = NoMtime)
    /\ \A k \in 1..Len(stack) :
          (stack[k].target \in phony /\ stack[k].stage = "ret") =>
              \A i \in RuleIds(stack[k].target) :
                  rules[stack[k].target][i].commands # <<>> =>
                      execcount[stack[k].target][i] = 1

\* The rules of t that have commands
CommandRules(t) == {i \in RuleIds(t) : rules[t][i].commands # <<>>}

\* C15 (as claimed): in every state all rules attached to one target agree on
\* doublecolon, a rule instance installed by implicit-rule search included.
C15_RulesAgreeOnDoubleColon ==
    \A t \in Names : \A i, j \in RuleIds(t) :
        rules[t][i].doublecolon = rules[t][j].doublecolon

\* t is a single-colon target
SingleColon(t) == Len(rules[t]) > 0 /\ ~rules[t][1].doublecolon

\* C16: a call of make that is past resolvedeps for a single-colon target
\* finds at most one rule with commands on it (the assertion of make());
\* resolving a single-colon target with two or more rules with commands
\* raises the multiple-rules error, and that error is raised for nothing
\* else; a rule is only ever added to a target by implicit-rule search, one
\* rule at a time, to a target that has no rule with commands.
C16_OneCommandRule ==
    /\ [](\A k \in 1..Len(stack) :
            (stack[k].stage # "enter" /\ SingleColon(stack[k].target)) =>
                Cardinality(CommandRules(stack[k].target)) <= 1)
    /\ [][/\ (pc = "make" /\ Top.stage = "enter" /\ remade[Top.target] = None
                /\ ~InSeq(Top.target, Top.targetstack)
                /\ SingleColon(Top.target)
                /\ Cardinality(CommandRules(Top.target)) > 1)
                  => (pc' = "error" /\ err' = "multiple")
          /\ (err = None /\ err' = "multiple") =>
                \E t \in Names : SingleColon(t) /\ Cardinality(CommandRules(t)) > 1
          /\ \A t \in Names :
                rules'[t] # rules[t] =>
                    /\ CommandRules(t) = {}
                    /\ Len(rules'[t]) = Len(rules[t]) + 1
                    /\ SubSeq(rules'[t], 1, Len(rules[t])) = rules[t]
                    /\ rules'[t][Len(rules'[t])].prule # 0
                    /\ rules'[t][Len(rules'[t])].commands # <<>>
         ]_vars

\* C16 witness: the recipe of a single-colon target is about to run, the
\* target has a rule without commands from the makefile and the rule that
\* implicit-rule search installed
C16_Witness ==
    /\ pc = "make" /\ Top.stage = "exec"
    /\ SingleColon(Top.target)
    /\ Len(rules[Top.target]) = 2
    /\ rules[Top.target][1].prule = 0 /\ rules[Top.target][2].prule # 0

\* C17 (as claimed): no chain of implicit rules uses one pattern rule twice:
\* when an instance of a pattern rule is installed on a target, no
\* prerequisite of that instance has an instance of the same pattern rule.
C17_NoPatternRuleTwice ==
    \A t, u \in Names : \A i \in RuleIds(t), j \in RuleIds(u) :
        (rules[t][i].prule # 0 /\ InSeq(u, rules[t][i].prerequisites)
            /\ rules[u][j].prule # 0)
          => rules[u][j].prule # rules[t][i].prule

\* The command line that a call of make in stage "exec" runs next
CurrentLine(f) == rules[f.target][ExecRule(f)].commands[f.ci]

\* A command line with a "-" among its leading modifier characters
DashPrefix(txt) ==
    \E i \in 1..Len(txt) :
        txt[i] = "-" /\ \A j \in 1..(i - 1) : txt[j] \in {"@", "+", " "}

\* The innermost call of make runs a command line in the next step
RunsCommand ==
    /\ pc = "make" /\ Top.stage = "exec"
    /\ rules[Top.target][ExecRule(Top)].commands # <<>>

\* C18: when a command line without a "-" prefix exits nonzero, the step
\* raises the command error, the target's remade flag is and stays unset, and
\* the only step after it ends the invocation with status 2: no command line
\* is run and no execute is called any more.  When the line has the "-"
\* prefix the call goes on to the next line of the recipe, or past the recipe
\* after its last line, with no error, as after exit status 0.
C18_FailureStopsTheBuild ==
    [][/\ (RunsCommand /\ lastexit' # 0 /\ ~DashPrefix(CurrentLine(Top).text)) =>
             /\ pc' = "error" /\ err' = "command"
             /\ remade[Top.target] = None /\ remade' = remade
             /\ stack' = stack
       /\ (RunsCommand /\ lastexit' # 0 /\ DashPrefix(CurrentLine(Top).text)) =>
             /\ pc' = "make" /\ err' = None
             /\ stack' = [stack EXCEPT ![Len(stack)] =
                    IF Top.ci < Len(rules[Top.target][ExecRule(Top)].commands)
                    THEN [Top EXCEPT !.ci = Top.ci + 1]
                    ELSE AfterExecute(Top)]
             /\ remade' = remade /\ mtime' = mtime
       /\ (pc = "error" /\ err = "command") =>
             /\ pc' = "exited" /\ status' = "2"
             /\ execcount' = execcount /\ lastexit' = lastexit
             /\ remade' = remade /\ disk' = disk /\ stack' = stack
       /\ pc # "exited"
      ]_vars

\* C18 witness: the invocation has ended with status 2 because the second
\* line of the recipe of b failed; the first line has the "-" prefix; the
\* recipe of a, which depends on b, was not started
C18_Witness ==
    /\ pc = "exited" /\ status = "2" /\ err = "command"
    /\ Top.target = "b" /\ Top.ci = 2
    /\ DashPrefix(rules["b"][1].commands[1].text)
    /\ Len(stack) = 2 /\ stack[1].target = "a"
    /\ execcount["a"][1] = 0 /\ remade["b"] = None

\* C20 (as claimed): once the recipe of a target has been executed and its
\* make has returned, the target's mtime is the modification time its file
\* has now (none only if the file does not exist).
C20_MtimeAfterRecipe ==
    \A t \in Names :
        (remade[t] # None /\ \E i \in RuleIds(t) : execcount[t][i] > 0)
            => mtime[t] = disk[t]

\* ------------------------------------------------------------------------
\* make.py: parsing, the remaking of the included makefiles and the restart
\* ------------------------------------------------------------------------
MaxRestarts == 2

\* The statements of a makefile: a rule for a target, include and -include,
\* a rule with order-only prerequisites (a: b | c), and a line that is
\* neither an assignment nor a rule
RuleStmt(t, r) == [kind |-> "rule", target |-> t, rule |-> r, required |-> FALSE]

IncludeStmt(f, required) ==
    [kind |-> "include", target |-> f, rule |-> <<>>, required |-> required]

OtherStmt(kind) == [kind |-> kind, target |-> None, rule |-> <<>>, required |-> FALSE]

\* Target.addrule: a rule that disagrees on doublecolon with the rules the
\* target has is refused
addrule(rs, rule) ==
    IF Len(rs) > 0 /\ rule.doublecolon # rs[1].doublecolon
    THEN [ok |-> FALSE, rules |-> rs]
    ELSE [ok |-> TRUE, rules |-> Append(rs, rule)]

\* parsestream and Makefile.include over the statements ss, on the record
\* m = [rules, included, mentioned, err].  An included file that exists holds
\* no rules.
RECURSIVE parsestream(_, _)
parsestream(m, ss) ==
    IF ss = <<>> \/ m.err # None THEN m
    ELSE LET s == Head(ss)
         IN  IF s.kind = "rule"
             THEN LET r == addrule(m.rules[s.target], s.rule)
                  IN  IF r.ok
                      THEN parsestream([m EXCEPT !.rules[s.target] = r.rules], Tail(ss))
                      ELSE [m EXCEPT !.err = "mixed"]
             ELSE IF s.kind = "include"
             THEN LET m1 == [m EXCEPT !.included = Append(@, s.target)]
                  IN  IF disk[s.target] # NoMtime
                      THEN parsestream([m1 EXCEPT !.mentioned = @ \cup {s.target}],
                                       Tail(ss))
                      ELSE IF s.required THEN [m1 EXCEPT !.err = "noinclude"]
                      ELSE parsestream(m1, Tail(ss))
             ELSE IF s.kind = "orderonly" THEN [m EXCEPT !.err = "orderonly"]
             ELSE [m EXCEPT !.err = "syntax"]

\* Makefile.foundtarget: the target of the first rule, or None
defaulttarget(ss) ==
    IF \E i \in 1..Len(ss) : ss[i].kind = "rule"
    THEN ss[CHOOSE i \in 1..Len(ss) :
                /\ ss[i].kind = "rule"
                /\ \A j \in 1..(i - 1) : ss[j].kind # "rule"].target
    ELSE None

DrvOnly == UNCHANGED <<parvars, varvars, condvars, flagvars, purevars>>

\* make.py, the body of "while True" up to finishparsing: a new Makefile, the
\* makefiles are read
Parse ==
    /\ DrvOnly
    /\ pc = "parse"
    /\ LET m == parsestream([rules |-> NoRules, included |-> <<>>, mentioned |-> {},
                             err |-> None], stmts)
       IN  /\ rules' = m.rules
           /\ included' = m.included
           /\ explicit' = [t \in Names |-> finishparsing(m.rules)[t] \/ t \in m.mentioned]
           /\ execcount' = [t \in Names |-> [i \in 1..Len(m.rules[t]) |-> 0]]
           /\ IF m.err # None
              THEN pc' = "error" /\ err' = m.err
              ELSE pc' = "remake" /\ err' = err
    /\ mtime' = [t \in Names |-> NoMtime]
    /\ vpathtarget' = [t \in Names |-> None]
    /\ realmtime' = [t \in Names |-> NoMtime]
    /\ remade' = [t \in Names |-> None]
    /\ remk' = [i |-> 1, reparse |-> FALSE, oldmtime |-> NoMtime]
    /\ UNCHANGED <<disk, goals, stack, lastexit, phony, implicitrules, stmts,
                   restarts, status>>

\* Makefile.remakemakefiles: the next included makefile is made
RemakeStart ==
    /\ DrvOnly
    /\ pc = "remake" /\ remk.i <= Len(included)
    /\ LET f == included[remk.i]
           s == resolvevpath([vp |-> vpathtarget, mt |-> mtime, rl |-> rules,
                              err |-> None], f)
       IN  /\ explicit' = [explicit EXCEPT ![f] = TRUE]
           /\ vpathtarget' = s.vp
           /\ mtime' = s.mt
           /\ remk' = [remk EXCEPT !.oldmtime = s.mt[f]]
           /\ stack' = <<Frame(f, <<>>, FALSE, TRUE)>>
    /\ pc' = "make"
    /\ UNCHANGED <<rules, disk, realmtime, remade, goals, err, execcount, lastexit,
                   phony, implicitrules, stmts, included, restarts, status>>

\* Makefile.remakemakefiles: "if t.mtime != oldmtime"
changed(t, oldmtime) == mtime[t] # oldmtime

\* Makefile.remakemakefiles: make returned
RemakeCheck ==
    /\ DrvOnly
    /\ pc = "remade"
    /\ remk' = [remk EXCEPT !.i = @ + 1,
                            !.reparse = @ \/ changed(included[remk.i], remk.oldmtime)]
    /\ pc' = "remake"
    /\ UNCHANGED <<rules, disk, mtime, vpathtarget, realmtime, remade, explicit,
                   goals, stack, err, execcount, lastexit, phony, implicitrules,
                   stmts, included, restarts, status>>

\* make.py: "if m.remakemakefiles(): i += 1; continue"
Restart ==
    /\ DrvOnly
    /\ pc = "remake" /\ remk.i > Len(included)
    /\ remk.reparse
    /\ restarts < MaxRestarts
    /\ restarts' = restarts + 1
    /\ pc' = "parse"
    /\ UNCHANGED <<rules, disk, mtime, vpathtarget, realmtime, remade, explicit,
                   goals, stack, err, execcount, lastexit, phony, implicitrules,
                   stmts, included, status, remk>>

\* make.py: remakemakefiles returned false: "break"
NoRestart ==
    /\ DrvOnly
    /\ pc = "remake" /\ remk.i > Len(included)
    /\ ~remk.reparse
    /\ pc' = "targets"
    /\ UNCHANGED <<rules, disk, mtime, vpathtarget, realmtime, remade, explicit,
                   goals, stack, err, execcount, lastexit, phony, implicitrules,
                   stmts, included, restarts, status, remk>>

\* make.py: the goals of the command line, or the default target, or exit 2
ChooseTargets ==
    /\ DrvOnly
    /\ pc = "targets"
    /\ IF goals # <<>> THEN pc' = "idle" /\ UNCHANGED <<goals, status>>
       ELSE IF defaulttarget(stmts) = None
       THEN pc' = "exited" /\ status' = "2" /\ UNCHANGED goals
       ELSE pc' = "idle" /\ goals' = <<defaulttarget(stmts)>> /\ UNCHANGED status
    /\ UNCHANGED <<rules, disk, mtime, vpathtarget, realmtime, remade, explicit,
                   stack, err, execcount, lastexit, phony, implicitrules,
                   stmts, included, restarts, remk>>

\* The makefiles: include or -include of c or neither, a rule for a over c,
\* no rule for c or c: b with a recipe that writes c or does not or c:: with
\* a recipe, and then nothing, a line of bad syntax, order-only
\* prerequisites, a double-colon rule for a, a second rule for a without
\* commands or a second rule for a with commands; and the empty makefile.
\* With them comes no pattern rule or the pattern rule %x: %.
Makefile(incl, crule, tail) ==
    incl \o <<RuleStmt("a", Rule(<<"c">>, FALSE, <<Plain>>))>> \o crule \o tail

DriverInputs ==
    {<<>>} \cup
    {Makefile(incl, crule, tail) :
        incl \in {<<>>, <<IncludeStmt("c", TRUE)>>, <<IncludeStmt("c", FALSE)>>},
        crule \in {<<>>,
                   <<RuleStmt("c", Rule(<<"b">>, FALSE, <<Line(<<"cmd">>, TRUE)>>))>>,
                   <<RuleStmt("c", Rule(<<"b">>, FALSE, <<Plain>>))>>,
                   <<RuleStmt("c", Rule(<<>>, TRUE, <<Line(<<"cmd">>, TRUE)>>))>>},
        tail \in {<<>>, <<OtherStmt("syntax")>>, <<OtherStmt("orderonly")>>,
                  <<RuleStmt("a", Rule(<<>>, TRUE, <<>>))>>,
                  <<RuleStmt("a", Rule(<<"b">>, FALSE, <<>>))>>,
                  <<RuleStmt("a", Rule(<<>>, FALSE, <<Plain>>))>>}}

\* make.py before "while True"
InitDriver ==
    /\ stmts \in DriverInputs
    /\ disk \in [Names -> Mtimes]
    /\ goals \in {<<>>, Goals}
    /\ rules = NoRules
    /\ mtime = [t \in Names |-> NoMtime]
    /\ vpathtarget = [t \in Names |-> None]
    /\ realmtime = [t \in Names |-> NoMtime]
    /\ remade = [t \in Names |-> None]
    /\ explicit = [t \in Names |-> FALSE]
    /\ stack = <<>>
    /\ pc = "parse"
    /\ err = None
    /\ execcount = [t \in Names |-> <<>>]
    /\ lastexit = 0 /\ phony = {}
    /\ implicitrules \in {<<>>, <<PatternRule(Pattern(<<>>, <<"x">>),
                                                <<Pattern(<<>>, <<>>)>>, FALSE, <<Plain>>)>>}
    /\ included = <<>> /\ restarts = 0 /\ status = None
    /\ remk = [i |-> 1, reparse |-> FALSE, oldmtime |-> NoMtime]
    /\ ParOff /\ VarOff /\ CondOff /\ FlagOff /\ PureOff

NextDriver ==
    \/ NextBuild
    \/ Parse
    \/ RemakeStart
    \/ RemakeCheck
    \/ Restart
    \/ NoRestart
    \/ ChooseTargets

SpecDriver == InitDriver /\ [][NextDriver]_vars

\* The included makefiles for which a recipe was executed since the parse
RemadeIncluded ==
    {k \in 1..Len(included) :
        \E i \in RuleIds(included[k]) : execcount[included[k]][i] > 0}

\* C12 (as claimed): when remakemakefiles has gone through the included
\* makefiles, it reports a re-parse exactly if making one of them executed a
\* recipe for it.
C12_ReparseIffRemade ==
    (pc = "remake" /\ remk.i > Len(included)) =>
        (remk.reparse <=> RemadeIncluded # {})

\* C13 (as claimed): an invocation that ended has status 2 if an error was
\* raised, and status 0 with every goal made if none was raised and the
\* makefiles hold a rule; no other status occurs.
C13_ExitStatus ==
    pc = "exited" =>
        /\ status \in {"0", "2"}
        /\ err # None => status = "2"
        /\ (err = None /\ defaulttarget(stmts) # None) => (status = "0" /\ goals = <<>>)

\* A call of make that is about to resolve its target
Resolving ==
    /\ pc = "make" /\ stack # <<>>
    /\ Top.stage = "enter" /\ ~IsRemade(Top.target)
    /\ ~InSeq(Top.target, Top.targetstack)

\* C19: when resolvedeps leaves the target of the call without rules after
\* the implicit-rule search, then: if there is no file, the call raises "no
\* rule to make target" when required is true and raises nothing when
\* required is false; if the file exists, nothing is raised, and the call
\* goes to its return without executing anything, returning "not remade".
C19_NoRuleToMake ==
    [][Resolving =>
        LET t == Top.target
            after == stack'[Len(stack)]
            accepted ==
                /\ pc' = "make" /\ err' = None
                /\ Len(stack') = Len(stack)
                /\ after.stage = "ret" /\ ~after.didanything
                /\ execcount' = execcount /\ disk' = disk /\ remade' = remade
        IN  /\ (rules'[t] = <<>> /\ disk[t] = NoMtime) =>
                IF Top.required
                THEN pc' = "error" /\ err' = "norule" /\ stack' = stack
                ELSE accepted
            /\ (rules'[t] = <<>> /\ disk[t] # NoMtime) => accepted
            /\ err' = "norule" =>
                \E d \in Names : rules'[d] = <<>> /\ disk[d] = NoMtime]_vars

\* An included makefile without rules and without a file was made and
\* nothing was raised, in a run in which the pattern rule was searched
C19_Witness ==
    /\ pc = "make" /\ stack # <<>> /\ Top.stage = "ret"
    /\ ~Top.required
    /\ rules[Top.target] = <<>> /\ disk[Top.target] = NoMtime
    /\ implicitrules # <<>>
    /\ err = None

\* The same target as a goal: the error is raised
C19_WitnessRequired ==
    /\ pc = "error" /\ err = "norule"
    /\ Top.required /\ Top.stage = "enter"
    /\ rules[Top.target] = <<>> /\ disk[Top.target] = NoMtime

\* A goal without rules that exists was accepted
C19_WitnessExists ==
    /\ pc = "make" /\ stack # <<>> /\ Top.stage = "ret"
    /\ Top.required
    /\ rules[Top.target] = <<>> /\ disk[Top.target] # NoMtime

\* ------------------------------------------------------------------------
\* MAKEFLAGS: Makefile.getsubenvironment (data.py) builds it, parsemakeflags
\* (command.py) reads it in the sub-make.  Strings are sequences of characters.
\* ------------------------------------------------------------------------
MaxValue == 2

\* str.isspace for the characters of the model
isspace(c) == c = " "

\* flagescape.sub(r'\\\1', o) with flagescape = re.compile(r'([\s\\])')
RECURSIVE flagescape(_)
flagescape(o) ==
    IF o = <<>> THEN <<>>
    ELSE (IF isspace(Head(o)) \/ Head(o) = "\\" THEN <<"\\", Head(o)>> ELSE <<Head(o)>>)
         \o flagescape(Tail(o))

\* ' '.join(l)
RECURSIVE join(_)
join(l) ==
    IF l = <<>> THEN <<>>
    ELSE IF Len(l) = 1 THEN l[1]
    ELSE l[1] \o <<" ">> \o join(Tail(l))

\* getsubenvironment: env['MAKEFLAGS'] from the value of the variable
\* MAKEFLAGS and the overrides
getsubenvironment(flagsval, ovs) ==
    flagsval \o <<" ", "-", "-", " ">> \o join([i \in 1..Len(ovs) |-> flagescape(ovs[i])])

\* str.strip
RECURSIVE lstrip(_)
lstrip(s) == IF s # <<>> /\ isspace(Head(s)) THEN lstrip(Tail(s)) ELSE s

RECURSIVE rstrip(_)
rstrip(s) ==
    IF s # <<>> /\ isspace(s[Len(s)]) THEN rstrip(SubSeq(s, 1, Len(s) - 1)) ELSE s

strip(s) == rstrip(lstrip(s))

\* parsemakeflags: "while i < len(makeflags) and makeflags[i].isspace(): i += 1"
RECURSIVE skipspace(_, _)
skipspace(mf, i) == IF i <= Len(mf) /\ isspace(mf[i]) THEN skipspace(mf, i + 1) ELSE i

\* parsemakeflags: the loop over the characters (i counts from 1)
RECURSIVE tokenize(_, _, _, _)
tokenize(mf, i, curopt, os) ==
    IF i > Len(mf)
    THEN [err |-> None, opts |-> IF curopt # <<>> THEN Append(os, curopt) ELSE os]
    ELSE IF isspace(mf[i])
    THEN tokenize(mf, skipspace(mf, i + 1), <<>>, Append(os, curopt))
    ELSE IF mf[i] = "\\"
    THEN IF i = Len(mf)
         THEN [err |-> "trailing", opts |-> os]
         ELSE tokenize(mf, i + 2, Append(curopt, mf[i + 1]), os)
    ELSE tokenize(mf, i + 1, Append(curopt, mf[i]), os)

\* parsemakeflags
parsemakeflags(env) ==
    LET stripped == strip(env)
    IN  IF stripped = <<>> THEN [err |-> None, opts |-> <<>>]
        ELSE tokenize(IF stripped[1] \notin {"-", " "} THEN <<"-">> \o stripped
                      ELSE stripped,
                      1, <<>>, <<>>)

\* parsecommandlineargs: the words V=val and V:=val of the command line,
\* the values over a letter, the blank and the backslash
Overrides ==
    {tok \o val : tok \in {<<"V", "=">>, <<"V", ":", "=">>},
                  val \in SeqsUpTo({"a", " ", "\\"}, MaxValue)}

\* No override, one or two
OverrideLists ==
    {<<>>} \cup {<<o>> : o \in Overrides} \cup {<<o, p>> : o \in Overrides, p \in Overrides}

InitFlags ==
    /\ overrides \in OverrideLists
    /\ makeflags \in {<<>>, <<"k">>}
    /\ opts = <<>>
    /\ fstate = "args"
    /\ MakeOff /\ ParOff /\ VarOff /\ CondOff /\ PureOff

\* A recipe is about to run: the environment of the command is built
GetSubEnvironment ==
    /\ FlagOnly
    /\ fstate = "args"
    /\ makeflags' = getsubenvironment(makeflags, overrides)
    /\ fstate' = "env"
    /\ UNCHANGED <<overrides, opts>>

\* The sub-make starts: command.main reads MAKEFLAGS
ParseMakeFlags ==
    /\ FlagOnly
    /\ fstate = "env"
    /\ LET r == parsemakeflags(makeflags)
       IN  IF r.err # None
           THEN fstate' = "error" /\ opts' = opts
           ELSE fstate' = "parsed" /\ opts' = r.opts
    /\ UNCHANGED <<overrides, makeflags>>

NextFlags == GetSubEnvironment \/ ParseMakeFlags

SpecFlags == InitFlags /\ [][NextFlags]_vars

\* The words after the word --
afterdashes(os) ==
    IF \E i \in 1..Len(os) : os[i] = <<"-", "-">>
    THEN SubSeq(os, 1 + CHOOSE i \in 1..Len(os) :
                        /\ os[i] = <<"-", "-">>
                        /\ \A j \in 1..(i - 1) : os[j] # <<"-", "-">>,
                Len(os))
    ELSE <<>>

\* C14 (as claimed): parsemakeflags succeeds on the MAKEFLAGS that
\* getsubenvironment built, and the words after -- are the overrides, in
\* order.
C14_RoundTrip ==
    /\ fstate # "error"
    /\ fstate = "parsed" => afterdashes(opts) = overrides

\* ------------------------------------------------------------------------
\* Properties of the implicit-rule search
\* ------------------------------------------------------------------------
\* A call of make that is about to resolve a target without a rule with
\* commands: resolvedeps runs the implicit-rule search for it
Searching == Resolving /\ CommandRules(Top.target) = {}

\* The candidates of the search of the call at the top of the stack
TopCandidates == candidates(Top.target, <<>>, 1)

\* The prerequisites of the rule r all exist on disk or are explicit targets
AllExistOrExplicit(r) ==
    \A j \in 1..Len(r.prerequisites) :
        explicit[r.prerequisites[j]] \/ disk[r.prerequisites[j]] # NoMtime

\* The chaining pass tries the candidate r in the state s: its prerequisites
\* are resolved in turn, the pattern rule of r being in use
Attempt(s, r) ==
    chainprereqs(s, r.prerequisites, Top.targetstack \o <<Top.target>>,
                 <<PRuleEntry(r.prule)>>)

\* The state in which the chaining pass tries the i-th of the candidates cs,
\* the ones before it having failed
RECURSIVE TriedIn(_, _)
TriedIn(cs, i) ==
    IF i = 1 THEN [vp |-> vpathtarget, mt |-> mtime, rl |-> rules, err |-> None]
    ELSE [Attempt(TriedIn(cs, i - 1), cs[i - 1]) EXCEPT !.err = None]

\* The prerequisites of the i-th of the candidates cs all resolve through
\* chaining when its turn comes
Chains(cs, i) == Attempt(TriedIn(cs, i), cs[i]).err = None

\* C27: a step installs an instance of a terminal pattern rule on a target
\* only if each of its prerequisites exists on disk or is an explicit
\* target at that moment.
C27_TerminalNeverChained ==
    [][\A t \in Names : \A i \in 1..Len(rules'[t]) :
          (i > Len(rules[t]) /\ rules'[t][i].prule # 0 /\ rules'[t][i].doublecolon)
              => AllExistOrExplicit(rules'[t][i])]_vars

\* An instance of a terminal pattern rule is installed
C27_Witness ==
    \E t \in Names : \E i \in 1..Len(rules[t]) :
        rules[t][i].prule # 0 /\ rules[t][i].doublecolon

\* C28: the search of a call appends to the rules of its target the first
\* candidate whose prerequisites all exist or are explicit; if there is none,
\* the first non-terminal candidate whose prerequisites resolve through
\* chaining; if there is none either, nothing.
C28_FirstCandidateInstalled ==
    [][Searching =>
        LET t == Top.target
            A == {i \in 1..Len(TopCandidates) : AllExistOrExplicit(TopCandidates[i])}
            surviving == SelectSeq(TopCandidates, LAMBDA r : ~r.doublecolon)
            B == {i \in 1..Len(surviving) : Chains(surviving, i)}
            first(S) == CHOOSE i \in S : \A j \in S : i <= j
        IN  rules'[t] = IF A # {} THEN Append(rules[t], TopCandidates[first(A)])
                        ELSE IF B # {} THEN Append(rules[t], surviving[first(B)])
                        ELSE rules[t]]_vars

\* A search installed its second candidate in the chaining pass
C28_Witness ==
    /\ pc = "make" /\ stack # <<>> /\ Top.stage # "enter"
    /\ Len(TopCandidates) > 1
    /\ rules[Top.target] = <<TopCandidates[2]>>
    /\ ~AllExistOrExplicit(TopCandidates[2])

\* C29: the implicit-rule search of a call returns without a resolution
\* error; when it installed no rule on a target that has rules already or
\* exists, and all prerequisites of these rules are explicit, the call goes
\* on without error.
C29_SearchSwallowsResolutionErrors ==
    [][Searching =>
        LET t == Top.target
            s == [vp |-> vpathtarget, mt |-> mtime, rl |-> rules, err |-> None]
            found == resolveimplicitrule(resolvevpath(s, t), t,
                                         Top.targetstack \o <<t>>, <<>>)
        IN  /\ found.err \notin ResolutionErrors
            /\ (/\ rules'[t] = rules[t]
                /\ rules[t] # <<>> \/ disk[t] # NoMtime
                /\ \A i \in 1..Len(rules[t]) : \A j \in 1..Len(rules[t][i].prerequisites) :
                      explicit[rules[t][i].prerequisites[j]])
               => (err' = None /\ pc' = "make")]_vars

\* A search returned with no rule installed although there was a
\* non-terminal candidate: its prerequisite could not be made
C29_Witness ==
    /\ pc = "make" /\ stack # <<>> /\ Top.stage = "ret"
    /\ rules[Top.target] = <<>>
    /\ \E i \in 1..Len(TopCandidates) : ~TopCandidates[i].doublecolon
    /\ err = None

\* The same with the candidate whose prerequisite is the target itself: the
\* recursive dependency was not the error of the call
C29_WitnessRecursive ==
    /\ pc = "error" /\ err = "norule" /\ stack # <<>>
    /\ rules[Top.target] = <<>>
    /\ \E i \in 1..Len(TopCandidates) :
          /\ ~TopCandidates[i].doublecolon
          /\ InSeq(Top.target, TopCandidates[i].prerequisites)

\* ------------------------------------------------------------------------
\* functions.py: foreach, firstword and lastword.  A list is a string, a
\* sequence of characters; its words are sequences of characters too.
\* ------------------------------------------------------------------------
MaxChars == 3

\* str.split(): the words between the runs of whitespace
RECURSIVE splitfrom(_, _, _)
splitfrom(s, i, cur) ==
    IF i > Len(s) THEN (IF cur = <<>> THEN <<>> ELSE <<cur>>)
    ELSE IF isspace(s[i])
    THEN (IF cur = <<>> THEN <<>> ELSE <<cur>>) \o splitfrom(s, i + 1, <<>>)
    ELSE splitfrom(s, i + 1, Append(cur, s[i]))

split(s) == splitfrom(s, 1, <<>>)

\* FirstWordFunction.resolve: "if len(wl) == 0: return", "yield wl[0]"
firstword(list) ==
    LET wl == split(list)
    IN  IF Len(wl) = 0 THEN <<>> ELSE wl[1]

\* LastWordFunction.resolve: "if len(wl) == 0: return", "yield wl[0]"
lastword(list) ==
    LET wl == split(list)
    IN  IF Len(wl) = 0 THEN <<>> ELSE wl[1]

\* ForEachFunction.resolve: "v = data.Variables(parent=variables)" for the
\* variables of the makefile: a new scope under g, in the place of t
childscope(vm) == [vm EXCEPT !["t"] = [n \in VarNames |-> NotSet]]

\* ForEachFunction.resolve: "for i in xrange(0, len(words))" from the i-th
\* word on, with the maps v of the child scope
RECURSIVE foreachfrom(_, _, _, _, _, _)
foreachfrom(v, vname, words, e, setting, i) ==
    IF i > Len(words) THEN Returns(<<>>)
    ELSE LET v1 == set(v, "t", vname, FLAVOR_SIMPLE, SOURCE_AUTOMATIC,
                       <<Tok("lit", words[i])>>)
             h == resolve(v1, "t", e, setting)
         IN  IF h.err # None THEN h
             ELSE LET r == foreachfrom(v1, vname, words, e, setting, i + 1)
                  IN  IF r.err # None THEN r ELSE Returns(h.val \o r.val)

\* ForEachFunction.resolve for $(foreach vname,list,e) in a line of the
\* makefile; the words of the result, which the caller joins with blanks
foreach(vm, vname, list, e, setting) ==
    foreachfrom(childscope(vm), vname, split(list), e, setting, 1)

\* The lists: up to MaxChars characters, letters and blanks
Lists == SeqsUpTo({"x", "y", " "}, MaxChars)

\* The binding of A in the makefile's variables before the line with the
\* function: none, or the word z from any source, simple or recursive
OuterBindings ==
    {NotSet} \cup
    {[flavor |-> f, source |-> src, value |-> <<Tok("lit", <<"z">>)>>] :
        f \in SetFlavors, src \in Sources}

NoResult == [op |-> "none", list |-> <<>>, out |-> Returns(<<>>), vm |-> <<>>]

InitFunc ==
    /\ MakeOff /\ ParOff /\ CondOff /\ FlagOff /\ PureOff
    /\ \E a \in OuterBindings :
          varmap = [s \in Scopes |->
                      [n \in VarNames |-> IF s = "g" /\ n = "A" THEN a ELSE NotSet]]
    /\ nops = 0
    /\ script = 0
    /\ result = NoResult
    /\ verr = None

\* A line of the makefile holds $(foreach A,list,$(A))
ForEach(list) ==
    /\ VarOnly
    /\ result = NoResult
    /\ result' = [op |-> "foreach", list |-> list, vm |-> varmap,
                  out |-> foreach(varmap, "A", list,
                                  parsemakesyntax(<<Tok("var", "A")>>), <<>>)]
    /\ UNCHANGED <<varmap, nops, script, verr>>

\* A line of the makefile holds $(firstword list)
FirstWord(list) ==
    /\ VarOnly
    /\ result = NoResult
    /\ result' = [op |-> "firstword", list |-> list, vm |-> varmap,
                  out |-> Returns(firstword(list))]
    /\ UNCHANGED <<varmap, nops, script, verr>>

\* A line of the makefile holds $(lastword list)
LastWord(list) ==
    /\ VarOnly
    /\ result = NoResult
    /\ result' = [op |-> "lastword", list |-> list, vm |-> varmap,
                  out |-> Returns(lastword(list))]
    /\ UNCHANGED <<varmap, nops, script, verr>>

NextFunc ==
    \/ \E list \in Lists : ForEach(list)
    \/ \E list \in Lists : FirstWord(list)
    \/ \E list \in Lists : LastWord(list)

SpecFunc == InitFunc /\ [][NextFunc]_vars

\* The words of a list, by their ends: a word starts after a blank or at the
\* start of the list and ends before a blank or at the end
WordStarts(s) == {i \in 1..Len(s) : s[i] # " " /\ (i = 1 \/ s[i - 1] = " ")}

WordEnd(s, i) == CHOOSE j \in i..Len(s) :
                    /\ \A k \in i..j : s[k] # " "
                    /\ j = Len(s) \/ s[j + 1] = " "

WordAt(s, i) == SubSeq(s, i, WordEnd(s, i))

\* C22 (as claimed): $(foreach A,list,$(A)) yields the words of the list,
\* one for each word and in their order, whatever A is bound to in the
\* makefile's variables, and these variables are as before.
C22_ForeachBindsEachWord ==
    result.op = "foreach" =>
        /\ result.out.err = None
        /\ Len(result.out.val) = Cardinality(WordStarts(result.list))
        /\ \A i \in WordStarts(result.list) :
              result.out.val[Cardinality({j \in WordStarts(result.list) : j <= i})]
                  = Tok("lit", WordAt(result.list, i))
        /\ varmap = result.vm

\* C23 (as claimed): firstword yields the first word of the list and
\* lastword the last; both yield the empty string for a list without words.
C23_FirstAndLastWord ==
    /\ result.op = "firstword" =>
          result.out.val = IF WordStarts(result.list) = {} THEN <<>>
                           ELSE WordAt(result.list,
                                       CHOOSE i \in WordStarts(result.list) :
                                           \A j \in WordStarts(result.list) : i <= j)
    /\ result.op = "lastword" =>
          result.out.val = IF WordStarts(result.list) = {} THEN <<>>
                           ELSE WordAt(result.list,
                                       CHOOSE i \in WordStarts(result.list) :
                                           \A j \in WordStarts(result.list) : i >= j)

\* ------------------------------------------------------------------------
\* data.py: Pattern.  A pattern is built from a string; its data are one
\* string, or two (what is before and after the first unquoted %).
\* ------------------------------------------------------------------------
MaxPat == 3

\* Before the call nothing was returned
NotCalled == [err |-> "notcalled", val |-> <<>>]

\* Pattern.__init__ from the i-th character of s on, r being what was read
RECURSIVE Pattern_scan(_, _, _)
Pattern_scan(s, i, r) ==
    IF i > Len(s) THEN [err |-> None, data |-> <<r>>]
    ELSE IF s[i] = "\\"
    THEN IF i = Len(s) THEN [err |-> "IndexError", data |-> <<>>]
         ELSE IF s[i + 1] = "%" THEN Pattern_scan(s, i + 2, Append(r, "%"))
         ELSE IF s[i + 1] = "\\" THEN Pattern_scan(s, i + 2, Append(r, "\\"))
         ELSE Pattern_scan(s, i + 1, Append(r, "\\"))
    ELSE IF s[i] = "%" THEN [err |-> None, data |-> <<r, SubSeq(s, i + 1, Len(s))>>]
    ELSE Pattern_scan(s, i + 1, Append(r, s[i]))

\* Pattern.__init__
Pattern_init(s) == Pattern_scan(s, 1, <<>>)

\* Pattern.ispattern
ispattern(data) == Len(data) = 2

\* Pattern.match for both kinds of pattern: [ok, stem], ok false for None
Pattern_match(data, word) ==
    IF ~ispattern(data)
    THEN IF word = data[1] THEN [ok |-> TRUE, stem |-> word]
         ELSE [ok |-> FALSE, stem |-> <<>>]
    ELSE match(Pattern(data[1], data[2]), word)

\* Pattern.resolve for both kinds of pattern
Pattern_resolve(data, dir, stem) ==
    IF ispattern(data) THEN patternresolve(Pattern(data[1], data[2]), dir, stem)
    ELSE data[1]

\* subst that parses the replacement of every pattern
subst_AlwaysParsed(data, replacement, word, mustmatch) ==
    LET m == Pattern_match(data, word)
        rp == Pattern_init(replacement)
    IN  IF ~m.ok
        THEN IF mustmatch THEN Raises("DataError") ELSE Returns(word)
        ELSE IF rp.err # None THEN Raises(rp.err)
        ELSE Returns(Pattern_resolve(rp.data, <<>>, m.stem))

\* Pattern.subst
subst(data, replacement, word, mustmatch) ==
    LET m == Pattern_match(data, word)
        rp == Pattern_init(replacement)
    IN  IF ~m.ok
        THEN IF mustmatch THEN Raises("DataError") ELSE Returns(word)
        ELSE IF ~ispattern(data) THEN Returns(replacement)
        ELSE IF rp.err # None THEN Raises(rp.err)
        ELSE Returns(Pattern_resolve(rp.data, <<>>, m.stem))

\* The strings of patterns and words: letters, backslashes and %
PatStrings == SeqsUpTo({"a", "\\", "%"}, MaxPat)

\* The replacements: a word, the patterns %, b% and %b, and the quoted \%
Replacements == {<<"b">>, <<"%">>, <<"b", "%">>, <<"%", "b">>, <<"\\", "%">>}

InitPattern ==
    /\ MakeOff /\ ParOff /\ VarOff /\ CondOff /\ FlagOff
    /\ \E p \in PatStrings, w \in PatStrings, r \in Replacements :
          call = [fn |-> "subst", p |-> p, r |-> r, word |-> w]
    /\ returned = NotCalled

\* Pattern(p).subst(r, word, True)
PatternSubst ==
    /\ PureOnly
    /\ call.fn = "subst" /\ returned = NotCalled
    /\ LET pat == Pattern_init(call.p)
       IN  returned' = IF pat.err # None THEN Raises(pat.err)
                       ELSE subst(pat.data, call.r, call.word, TRUE)
    /\ UNCHANGED call

NextPattern == PatternSubst

SpecPattern == InitPattern /\ [][NextPattern]_vars

\* The string s has an unquoted or quoted % somewhere
HasPercent(s) == \E i \in 1..Len(s) : s[i] = "%"

\* C24 (as claimed): for a string p without %, Pattern(p).subst(r, p, True)
\* returns r.
C24_SubstOfItself ==
    (returned # NotCalled /\ ~HasPercent(call.p) /\ call.word = call.p)
        => returned = Returns(call.r)

\* The stem: what is left of the word between the two parts of the pattern
StemOf(data, word) == SubSeq(word, Len(data[1]) + 1, Len(word) - Len(data[2]))

\* The word is matched by the pattern p, whose data are known
Matched(data, word) ==
    IF Len(data) = 1 THEN word = data[1]
    ELSE /\ Len(word) >= Len(data[1]) + Len(data[2])
         /\ SubSeq(word, 1, Len(data[1])) = data[1]
         /\ SubSeq(word, Len(word) - Len(data[2]) + 1, Len(word)) = data[2]

\* The call is Pattern(p).subst(r, w, True) for a pattern and a replacement
\* that could be built, a word that the pattern matches and a replacement
\* with a %
SubstCase ==
    /\ returned # NotCalled
    /\ Pattern_init(call.p).err = None /\ Pattern_init(call.r).err = None
    /\ Matched(Pattern_init(call.p).data, call.word)
    /\ Len(Pattern_init(call.r).data) = 2

\* C25 (as claimed): whatever the pattern, the result is the replacement
\* with the stem that match returns in the place of its %.
C25_Original ==
    SubstCase =>
        LET p == Pattern_init(call.p).data
            r == Pattern_init(call.r).data
        IN  returned = Returns(r[1] \o Pattern_match(p, call.word).stem \o r[2])

\* C25: for a pattern with a %, the result is the replacement with the stem
\* in the place of its %; for a pattern without %, the result is the
\* replacement as it was written, its % included.
C25_SubstIsResolve ==
    SubstCase =>
        LET p == Pattern_init(call.p).data
            r == Pattern_init(call.r).data
        IN  returned = IF Len(p) = 2 THEN Returns(r[1] \o StemOf(p, call.word) \o r[2])
                       ELSE Returns(call.r)

\* A pattern with a % and a stem that is not empty was substituted
C25_Witness ==
    /\ SubstCase
    /\ Len(Pattern_init(call.p).data) = 2
    /\ StemOf(Pattern_init(call.p).data, call.word) # <<>>
    /\ Pattern_init(call.r).data[1] # <<>>

\* ------------------------------------------------------------------------
\* parser.py: Location and Data.  Offsets count from 0 as in the source; the
\* characters of the buffer are data[1], data[2], ...
\* ------------------------------------------------------------------------
MaxSegs == 2

tabwidth == 4

Location(path, line, column) == [path |-> path, line |-> line, column |-> column]

\* charlocation that moves a tab by the whole width
charlocation_Plus(start, char) ==
    IF char # "\t" THEN start + 1 ELSE start + tabwidth

\* charlocation
charlocation(start, char) ==
    IF char # "\t" THEN start + 1 ELSE start + tabwidth - (start % tabwidth)

\* reduce(charlocation, data, column)
RECURSIVE reduce(_, _)
reduce(data, column) ==
    IF data = <<>> THEN column ELSE reduce(Tail(data), charlocation(column, Head(data)))

\* Location.__add__
Location_add(loc, data) == Location(loc.path, loc.line, reduce(data, loc.column))

\* findlast(lambda (o, l): o <= offset, locs), f being the last one found
RECURSIVE findlast(_, _, _)
findlast(offset, locs, f) ==
    IF locs = <<>> THEN f
    ELSE IF Head(locs)[1] <= offset THEN findlast(offset, Tail(locs), Head(locs))
    ELSE f

\* Data.getloc for a buffer that has a segment
getloc(data, locs, offset) ==
    LET o1 == IF offset >= Len(data) THEN Len(data) - 1 ELSE offset
        o2 == IF o1 = -1 THEN 0 ELSE o1
        f == findlast(o2, locs, <<>>)
    IN  Location_add(f[2], SubSeq(data, f[1] + 1, o2))

\* The segments: texts with and without tabs, the empty text as well
Texts == {<<>>, <<"a">>, <<"\t">>, <<"a", "\t">>, <<"\t", "a">>, <<"a", "a", "\t">>}

\* Their locations: two lines of one file, at the start of the line and
\* further in
Locations == {Location("f", line, column) : line \in {1, 2}, column \in {0, 3}}

\* Data.__init__
InitData ==
    /\ MakeOff /\ ParOff /\ VarOff /\ CondOff /\ FlagOff
    /\ call = [fn |-> "Data", data |-> <<>>, locs |-> <<>>, segs |-> <<>>, offset |-> 0]
    /\ returned = NotCalled

\* Data.append(text, loc); segs keeps the calls
DataAppend(text, loc) ==
    /\ PureOnly
    /\ call.fn = "Data" /\ returned = NotCalled
    /\ Len(call.segs) < MaxSegs
    /\ call' = [call EXCEPT !.locs = Append(@, <<Len(call.data), loc>>),
                            !.data = @ \o text,
                            !.segs = Append(@, [text |-> text, loc |-> loc])]
    /\ UNCHANGED returned

\* Data.getloc(offset)
GetLoc(offset) ==
    /\ PureOnly
    /\ call.fn = "Data" /\ returned = NotCalled
    /\ call.locs # <<>>
    /\ call' = [call EXCEPT !.offset = offset]
    /\ returned' = Returns(getloc(call.data, call.locs, offset))

NextData ==
    \/ \E text \in Texts, loc \in Locations : DataAppend(text, loc)
    \/ \E offset \in 0..Len(call.data) : GetLoc(offset)

SpecData == InitData /\ [][NextData]_vars

\* The offset at which segment i starts
RECURSIVE SegStart(_, _)
SegStart(segs, i) == IF i = 1 THEN 0 ELSE SegStart(segs, i - 1) + Len(segs[i - 1].text)

\* The offset falls in segment i
InSegment(segs, i, offset) ==
    SegStart(segs, i) <= offset /\ offset < SegStart(segs, i) + Len(segs[i].text)

\* The column after the first n characters of the text, from column c: one
\* further per character, to the next multiple of 4 per tab
RECURSIVE ColumnAfter(_, _, _)
ColumnAfter(c, text, n) ==
    IF n = 0 THEN c
    ELSE LET before == ColumnAfter(c, text, n - 1)
         IN  IF text[n] = "\t" THEN 4 * ((before \div 4) + 1) ELSE before + 1

\* C26: getloc of an offset in segment i has the path and line of loc_i, and
\* the column of loc_i moved over the part of text_i before the offset;
\* within a segment the column does not decrease with the offset.
C26_GetLoc ==
    /\ returned # NotCalled =>
          \A i \in 1..Len(call.segs) :
              InSegment(call.segs, i, call.offset) =>
                  /\ returned.err = None
                  /\ returned.val.path = call.segs[i].loc.path
                  /\ returned.val.line = call.segs[i].loc.line
                  /\ returned.val.column =
                        ColumnAfter(call.segs[i].loc.column, call.segs[i].text,
                                    call.offset - SegStart(call.segs, i))
    /\ (call.fn = "Data" /\ call.locs # <<>>) =>
          \A i \in 1..Len(call.segs) : \A o1, o2 \in 0..(Len(call.data) - 1) :
              (o1 <= o2 /\ InSegment(call.segs, i, o1) /\ InSegment(call.segs, i, o2))
                  => getloc(call.data, call.locs, o1).column
                        <= getloc(call.data, call.locs, o2).column

\* The location of an offset behind a tab in the second segment, which
\* starts in the middle of a line, was asked for
C26_Witness ==
    /\ returned # NotCalled
    /\ Len(call.segs) = 2
    /\ InSegment(call.segs, 2, call.offset)
    /\ call.segs[2].loc.column = 3
    /\ call.offset > SegStart(call.segs, 2)
    /\ call.segs[2].text[1] = "\t"

\* The lines of the conditionals that are open after the lines ls, the
\* innermost last
RECURSIVE OpenConditionals(_, _, _)
OpenConditionals(ls, i, open) ==
    IF i > Len(ls) THEN open
    ELSE IF ls[i].kind = "if" THEN OpenConditionals(ls, i + 1, Append(open, i))
    ELSE IF ls[i].kind = "endif" /\ open # <<>>
    THEN OpenConditionals(ls, i + 1, SubSeq(open, 1, Len(open) - 1))
    ELSE OpenConditionals(ls, i + 1, open)

\* C30 (as claimed): parsestream that ends with an error has raised a
\* SyntaxError: at the end of the input with the line of the innermost
\* conditional that is still open, and for an else or endif without an open
\* conditional with the line of that directive; an endif with an open
\* conditional pops exactly one frame and raises nothing.
C30_ConditionalSyntaxErrors ==
    /\ [](cstate = "error" =>
            IF condstack # <<>>
            THEN LET open == OpenConditionals(lines, 1, <<>>)
                 IN  cerr = SyntaxError(open[Len(open)])
            ELSE /\ lines[Len(lines)].kind \in {"else", "elif", "endif"}
                 /\ cerr = SyntaxError(Len(lines)))
    /\ [][(lines' # lines /\ lines'[Len(lines')].kind = "endif" /\ condstack # <<>>)
            => (/\ condstack' = SubSeq(condstack, 1, Len(condstack) - 1)
                /\ cstate' = cstate)]_vars

\* ---------------------------------------------------------------------------
\* Rule headers and the default target (parser.parsestream, Makefile.foundtarget)
\* ---------------------------------------------------------------------------

\* The rule headers parsed in one run
MaxHeaders == 3

\* A header after a ':' or '::' token: the words before the token, the form
\* the rest of the line gives it ("rule": prerequisites follow, "static": a
\* target pattern and a second ':' follow, "assign": a variable assignment
\* follows), and the target pattern of a static pattern rule
Header(form, words, doublecolon, pattern) ==
    [form |-> form, words |-> words, doublecolon |-> doublecolon, pattern |-> pattern]

TargetLists ==
    {<<>>, <<<<"a">>>>, <<<<"b">>>>, <<<<"a">>, <<"b">>>>,
     <<<<"%">>>>, <<<<"%">>, <<"a">>>>}

Headers ==
    {Header("rule", ws, dc, <<>>) : ws \in TargetLists, dc \in BOOLEAN}
    \cup {Header("static", ws, FALSE, p) : ws \in TargetLists, p \in {<<"%">>, <<"a", "%">>}}
    \cup {Header("assign", ws, FALSE, <<>>) : ws \in TargetLists}

\* Makefile.__init__: no default target, no target, no implicit rule
NewMakefile ==
    [defaulttarget |-> None, targets |-> <<>>, implicitrules |-> 0,
     patternvariables |-> 0, err |-> None]

\* The rules of the target named t in the pairs <<name, rules>> of ts
RulesOf(ts, t) ==
    IF \E i \in 1..Len(ts) : ts[i][1] = t
    THEN ts[CHOOSE i \in 1..Len(ts) : ts[i][1] = t][2]
    ELSE <<>>

\* Makefile.gettarget(t) followed by a change of its rules to rs
WithRules(ts, t, rs) ==
    IF \E i \in 1..Len(ts) : ts[i][1] = t
    THEN [i \in 1..Len(ts) |-> IF ts[i][1] = t THEN <<t, rs>> ELSE ts[i]]
    ELSE Append(ts, <<t, rs>>)

\* foundtarget that takes every candidate
foundtarget_Last(m, t) == [m EXCEPT !.defaulttarget = t]

\* Makefile.foundtarget
foundtarget(m, t) ==
    IF m.defaulttarget = None THEN [m EXCEPT !.defaulttarget = t] ELSE m

\* for t in targets: makefile.gettarget(t.gettarget()).addrule(rule), from
\* the i-th target on; the first refusal ends the loop with a DataError
RECURSIVE addrules(_, _, _, _)
addrules(m, targets, i, rule) ==
    IF i > Len(targets) THEN m
    ELSE LET t == targets[i][1]
             added == addrule(RulesOf(m.targets, t), rule)
         IN  IF ~added.ok THEN [m EXCEPT !.err = "DataError"]
             ELSE addrules([m EXCEPT !.targets = WithRules(m.targets, t, added.rules)],
                           targets, i + 1, rule)

\* for target in targets: setvariable(..., makefile.gettarget(...).variables)
RECURSIVE settargetvariables(_, _, _)
settargetvariables(m, targets, i) ==
    IF i > Len(targets) THEN m
    ELSE LET t == targets[i][1]
         IN  settargetvariables(
                 [m EXCEPT !.targets = WithRules(m.targets, t, RulesOf(m.targets, t))],
                 targets, i + 1)

\* The part of parsestream that handles a line with a ':' or '::' token
ruleheader(m, h) ==
    LET targets == [i \in 1..Len(h.words) |-> Pattern_init(h.words[i]).data]
        ispatterns == {ispattern(targets[i]) : i \in 1..Len(targets)}
        isp == TRUE \in ispatterns
        rule == [doublecolon |-> h.doublecolon]
    IN  IF Cardinality(ispatterns) = 2 THEN [m EXCEPT !.err = "SyntaxError"]
        ELSE IF h.form = "rule"
        THEN IF isp THEN [m EXCEPT !.implicitrules = @ + 1]
             ELSE LET added == addrules(m, targets, 1, rule)
                  IN  IF added.err # None THEN added
                      ELSE IF Len(targets) > 0 THEN foundtarget(added, targets[1][1])
                      ELSE added
        ELSE IF h.form = "assign"
        THEN IF isp THEN [m EXCEPT !.patternvariables = @ + Len(targets)]
             ELSE settargetvariables(m, targets, 1)
        ELSE IF isp THEN [m EXCEPT !.err = "SyntaxError"]
        ELSE LET pattern == Pattern_init(h.pattern).data
             IN  IF \E i \in 1..Len(targets) : ~Pattern_match(pattern, targets[i][1]).ok
                 THEN LET bad == CHOOSE i \in 1..Len(targets) :
                                   /\ ~Pattern_match(pattern, targets[i][1]).ok
                                   /\ \A j \in 1..(i - 1) :
                                        Pattern_match(pattern, targets[j][1]).ok
                          added == addrules(m, SubSeq(targets, 1, bad - 1), 1, rule)
                      IN  IF added.err # None THEN added
                          ELSE [added EXCEPT !.err = "SyntaxError"]
                 ELSE LET added == addrules(m, targets, 1, rule)
                      IN  IF added.err # None THEN added
                          ELSE IF Len(targets) > 0 THEN foundtarget(added, targets[1][1])
                          ELSE added

InitHeaders ==
    /\ MakeOff /\ ParOff /\ VarOff /\ CondOff /\ FlagOff
    /\ call = <<>>
    /\ returned = NewMakefile

\* parsestream reads one more rule header
ParseHeader(h) ==
    /\ PureOnly
    /\ returned.err = None
    /\ Len(call) < MaxHeaders
    /\ call' = Append(call, h)
    /\ returned' = ruleheader(returned, h)

NextHeaders == \E h \in Headers : ParseHeader(h)

SpecHeaders == InitHeaders /\ [][NextHeaders]_vars

\* The header names a target without %, and is a rule or a static pattern rule
Candidate(h) ==
    /\ h.form \in {"rule", "static"}
    /\ h.words # <<>>
    /\ ~HasPercent(h.words[1])

\* C21: after the headers parsed without error, the default target is the
\* first word of the first header that is a plain or static-pattern rule with
\* a target, and None when there is no such header; a default target that is
\* set does not change with later headers (pattern rules, variable
\* assignments and later rules included).
C21_DefaultTarget ==
    /\ [](returned.err = None =>
            IF \E i \in 1..Len(call) : Candidate(call[i])
            THEN LET first == CHOOSE i \in 1..Len(call) :
                                /\ Candidate(call[i])
                                /\ \A j \in 1..(i - 1) : ~Candidate(call[j])
                 IN  returned.defaulttarget = call[first].words[1]
            ELSE returned.defaulttarget = None)
    /\ [][returned.defaulttarget # None
            => returned'.defaulttarget = returned.defaulttarget]_vars

\* A pattern rule or an assignment, then a rule for a, then a rule whose first
\* target is b: the default target is a
C21_Witness ==
    /\ Len(call) = 3
    /\ returned.err = None
    /\ ~Candidate(call[1])
    /\ call[1].words # <<>>
    /\ Candidate(call[2]) /\ call[2].words[1] = <<"a">>
    /\ Candidate(call[3]) /\ call[3].words[1] = <<"b">>
    /\ returned.defaulttarget = <<"a">>

\* ---------------------------------------------------------------------------
\* Double-colon rules without prerequisites and the remaking of makefiles
\* ---------------------------------------------------------------------------

\* The double-colon rules of t that have no prerequisites
ForcedRules(t) ==
    {i \in RuleIds(t) : rules[t][i].doublecolon /\ Len(rules[t][i].prerequisites) = 0}

\* The call f of make is past rule i of its target
PastRule(f, i) ==
    \/ f.stage = "ret"
    \/ f.stage \in {"deps", "exec"} /\ i < f.ri

MaxBody == 4

\* A line of the input: the word it starts with after white space ("define",
\* "endef" or other text), whether its first character is a tab, and
\* whether it ends with a backslash before its newline
BodyLine(word, tab, cont) == [word |-> word, tab |-> tab, cont |-> cont]

BodyLines ==
    {BodyLine(w, FALSE, c) : w \in {"define", "endef", "text"}, c \in BOOLEAN}
    \cup {BodyLine("endef", TRUE, FALSE)}

\* checkfortoken that takes every endef line for the end
checkfortoken_Flat(ls, k) ==
    IF k > Len(ls) THEN 0
    ELSE IF ls[k].tab THEN 0
    ELSE IF ls[k].word = "endef" THEN 0 - 1
    ELSE 0

\* checkfortoken on the line ls[k]: 0 past the end of the data and for a
\* line that starts with a tab
checkfortoken(ls, k) ==
    IF k > Len(ls) THEN 0
    ELSE IF ls[k].tab THEN 0
    ELSE IF ls[k].word = "define" THEN 1
    ELSE IF ls[k].word = "endef" THEN 0 - 1
    ELSE 0

\* What iterdefinechars yields for a line: its text and what follows it (its
\* newline, the blank that replaces a continuation, or nothing)
Piece(k, end) == [line |-> k, end |-> end]

\* The loop of iterdefinechars: the data holds the lines up to k, offset is
\* in line k.  nonl: the last line of the input has no newline.
RECURSIVE definechars(_, _, _, _, _)
definechars(ls, nonl, k, definecount, out) ==
    IF k > Len(ls) THEN Raises("SyntaxError")
    ELSE IF k = Len(ls) /\ nonl
    THEN Raises("SyntaxError")
    ELSE IF ls[k].cont
    THEN definechars(ls, nonl, k + 1, definecount, Append(out, Piece(k, " ")))
    ELSE LET count == definecount + checkfortoken(ls, k + 1)
         IN  IF count = 0 THEN Returns(Append(out, Piece(k, "")))
             ELSE definechars(ls, nonl, k + 1, count, Append(out, Piece(k, "\n")))

\* iterdefinechars(d, 0, emptytokenlist) on a Data that read the first line
iterdefinechars(ls, nonl) ==
    LET definecount == 1 + checkfortoken(ls, 1)
    IN  IF definecount = 0 THEN Returns(<<>>)
        ELSE definechars(ls, nonl, 1, definecount, <<>>)

InitDefine ==
    /\ MakeOff /\ ParOff /\ VarOff /\ CondOff /\ FlagOff
    /\ \E ls \in SeqsUpTo(BodyLines, MaxBody), nonl \in BOOLEAN :
          /\ nonl => (ls # <<>> /\ ~ls[Len(ls)].cont)
          /\ call = [fn |-> "define", lines |-> ls, nonl |-> nonl]
    /\ returned = NotCalled

\* parsestream meets "define NAME": the value is what iterdefinechars yields
Define ==
    /\ PureOnly
    /\ call.fn = "define" /\ returned = NotCalled
    /\ returned' = iterdefinechars(call.lines, call.nonl)
    /\ UNCHANGED call

NextDefine == Define

SpecDefine == InitDefine /\ [][NextDefine]_vars

\* Line k starts a line of the makefile (it does not continue line k - 1)
StartsLine(ls, k) == k = 1 \/ ~ls[k - 1].cont

\* The change of the nesting counter by the line that starts at k
Direction(l) ==
    IF l.tab THEN 0
    ELSE IF l.word = "define" THEN 1
    ELSE IF l.word = "endef" THEN 0 - 1
    ELSE 0

\* The nesting counter after the lines that start at or before k
RECURSIVE Nesting(_, _)
Nesting(ls, k) ==
    IF k = 0 THEN 1
    ELSE Nesting(ls, k - 1) + (IF StartsLine(ls, k) THEN Direction(ls[k]) ELSE 0)

\* The lines at which the counter is zero
Closing(ls) == {k \in 1..Len(ls) : StartsLine(ls, k) /\ Nesting(ls, k) = 0}

C33_NoTimeout ==
    /\ main = "returned" => (Len(pending) = 0 /\ running = 0 /\ Len(results) = 0)
    /\ ~(main = "timeout" /\ running > 0)

\* The commands 0..counter-1 in the order of their submission
Submitted == [i \in 1..counter |-> i - 1]

C35_NoLostWakeup ==
    ~(main = "wait" /\ Len(results) > 0)

\* ---------------------------------------------------------------------------
\* Pattern-specific variables and their merge into a target's variables
\* (parsestream, Makefile.getpatternvariables, Variables.merge, resolvedeps)
\* ---------------------------------------------------------------------------

\* The assignments before the target is resolved
MaxAssigns == 2

\* makefile.variables, the variables of one target, and the variables of one
\* pattern that matches the target: Variables() without a parent
MergeScopes == {"g", "t", "p"}

\* Variables.set: "assert flavor in (self.FLAVOR_RECURSIVE, self.FLAVOR_SIMPLE)"
flavorassert(flavor) == flavor \in SetFlavors

\* Variables.merge: "for k, flavor, source, value in other: self.set(...)",
\* with the entries of other in the order names; or the failed assertion
RECURSIVE merge(_, _, _, _)
merge(vm, s, other, names) ==
    IF names = <<>> THEN [err |-> None, vm |-> vm]
    ELSE LET k == Head(names)
             e == vm[other][k]
         IN  IF ~flavorassert(e.flavor) THEN [err |-> "AssertionError", vm |-> vm]
             ELSE merge(set(vm, s, k, e.flavor, e.source, e.value), s, other, Tail(names))

\* The orders in which a dictionary can hand out the keys of scope s
KeyOrders(vm, s) ==
    LET keys == {n \in VarNames : inmap(vm, s, n)}
    IN  {l \in ListsOver(keys, Cardinality(keys)) : Len(l) = Cardinality(keys)}

InitMerge ==
    /\ MakeOff /\ ParOff /\ CondOff /\ FlagOff /\ PureOff
    /\ varmap = [s \in MergeScopes |-> [n \in VarNames |-> NotSet]]
    /\ nops = 0
    /\ script = -1
    /\ result = NoCall
    /\ verr = None

\* parsestream reads "vname token text" (s = "g"), "target: vname token text"
\* (s = "t") or "pattern: vname token text" (s = "p")
ScopedAssign(s, vname, token, text) ==
    /\ VarOnly
    /\ verr = None /\ result.op # "merge"
    /\ nops < MaxAssigns
    /\ LET out == setvariable(varmap, s, vname, token, text, SOURCE_MAKEFILE)
       IN  varmap' = out.vm /\ verr' = out.err
    /\ nops' = nops + 1
    /\ UNCHANGED <<script, result>>

\* Target.resolvedeps of the target: "for v in
\* makefile.getpatternvariablesfor(self.target): self.variables.merge(v)"
MergePatternVariables ==
    /\ VarOnly
    /\ verr = None /\ result.op # "merge"
    /\ \E names \in KeyOrders(varmap, "p") :
          LET out == merge(varmap, "t", "p", names)
          IN  varmap' = out.vm /\ verr' = out.err
    /\ result' = [NoCall EXCEPT !.op = "merge"]
    /\ UNCHANGED <<nops, script>>

NextMerge ==
    \/ \E s \in MergeScopes, vname \in VarNames, token \in AssignTokens,
          text \in SetTexts :
          ScopedAssign(s, vname, token, text)
    \/ MergePatternVariables

SpecMerge == InitMerge /\ [][NextMerge]_vars

\* C36 (as claimed): the merge of the pattern's variables into the target's
\* never fails the assertion of set about the flavor, whatever assignments
\* (+= included) defined the pattern's variables.
C36_MergeKeepsFlavorAssertion ==
    result.op = "merge" => verr # "AssertionError"

\* The candidates that the chaining pass of the search at the top of the
\* stack tries: the non-terminal ones, when no candidate has prerequisites
\* that all exist or are explicit
Surviving ==
    IF \E i \in 1..Len(TopCandidates) : AllExistOrExplicit(TopCandidates[i])
    THEN <<>>
    ELSE SelectSeq(TopCandidates, LAMBDA r : ~r.doublecolon)

\* The chaining pass reaches its i-th candidate and discards it: a
\* prerequisite raised a ResolutionError
Discarded(i) ==
    /\ \A j \in 1..(i - 1) : ~Chains(Surviving, j)
    /\ Attempt(TriedIn(Surviving, i), Surviving[i]).err \in ResolutionErrors

\* C37 (as claimed): when the chaining pass discards a candidate, the rules
\* of every target are what they were before the candidate was tried.
C37_FailedAttemptLeavesNoRule ==
    Searching =>
        \A i \in 1..Len(Surviving) :
            Discarded(i) =>
                Attempt(TriedIn(Surviving, i), Surviving[i]).rl = TriedIn(Surviving, i).rl

\* ------------------------------------------------------------------------
\* Termination of Target.resolvedeps and Target.make
\* ------------------------------------------------------------------------
\* The rule stacks the chaining pass can build: pattern rules of the makefile
ChainStacks ==
    SeqsUpTo({PRuleEntry(k) : k \in 1..Len(implicitrules)}, Len(implicitrules))

\* The pattern rules on a rule stack
OnRuleStack(rulestack) ==
    {rulestack[j].id : j \in {i \in 1..Len(rulestack) : rulestack[i].kind = "PatternRule"}}

\* The make calls in progress that are past their resolvedeps
Resolved(k) == stack[k].stage # "enter"

\* Where a call of make is: its rule, its stage, its prerequisite, its command
StageRank(stage) ==
    IF stage = "enter" THEN 0 ELSE IF stage = "deps" THEN 1
    ELSE IF stage = "exec" THEN 2 ELSE 3

Position(f) == <<f.ri, StageRank(f.stage), f.pi, f.ci>>

RECURSIVE Positions(_)
Positions(fs) == IF fs = <<>> THEN <<>> ELSE Position(Head(fs)) \o Positions(Tail(fs))

\* Where the invocation is: the goals begun, the driver, the calls in progress
PcRank ==
    IF pc = "make" THEN 0 ELSE IF pc \in {"idle", "remade"} THEN 1
    ELSE IF pc \in {"done", "error"} THEN 2 ELSE 3

Progress == <<Len(Goals) - Len(goals), PcRank>> \o Positions(stack)

\* s comes before t in the order of the dictionary
RECURSIVE LexLess(_, _)
LexLess(s, t) ==
    IF t = <<>> THEN FALSE
    ELSE IF s = <<>> THEN TRUE
    ELSE IF Head(s) # Head(t) THEN Head(s) < Head(t)
    ELSE LexLess(Tail(s), Tail(t))

MaxCapacity == 2

MaxKeys == 3

\* The keys requested, and the objects the creation function returns
LRUKeys == 1..MaxKeys

LRUObjects == {1, 2}

\* The items that can be alive at once: a full cache and the item a miss adds
\* before it evicts
ItemIds == 1..(MaxCapacity + 1)

\* Python's None, and an attribute that does not exist
Null == 0

\* _LRUItem: __slots__ = ('key', 'o', 'next', 'prev')
Item(o, key, next, prev) == [o |-> o, key |-> key, next |-> next, prev |-> prev]

\* The place of an item that does not exist
Free == Item(Null, Null, Null, Null)

\* A new object gets a place no living object has
alloc(heap) ==
    CHOOSE id \in ItemIds : heap[id] = Free /\ \A j \in 1..(id - 1) : heap[j] # Free

\* _LRUItem.__init__
LRUItem(heap, id, o, key, before) ==
    IF before = Null THEN [heap EXCEPT ![id] = Item(o, key, id, id)]
    ELSE LET h1 == [heap EXCEPT ![id] = Item(o, key, before, heap[before].prev)]
             h2 == [h1 EXCEPT ![before].prev = id]
         IN  [h2 EXCEPT ![h2[id].prev].next = id]

\* drop that leaves the next item pointing at the dropped one
drop_Half(heap, x) ==
    LET h1 == [heap EXCEPT ![heap[x].prev].next = heap[x].next]
    IN  [h1 EXCEPT ![x].next = Null, ![x].prev = Null]

\* _LRUItem.drop
drop(heap, x) ==
    LET h1 == [heap EXCEPT ![heap[x].prev].next = heap[x].next]
        h2 == [h1 EXCEPT ![h1[x].next].prev = h1[x].prev]
    IN  [h2 EXCEPT ![x].next = Null, ![x].prev = Null]

\* _LRUItem.movebefore
movebefore(heap, x, item) ==
    IF x = item THEN heap
    ELSE LET h0 == drop(heap, x)
             h1 == [h0 EXCEPT ![x].next = item]
             h2 == [h1 EXCEPT ![x].prev = h1[item].prev]
             h3 == [h2 EXCEPT ![item].prev = x]
         IN  [h3 EXCEPT ![h3[x].prev].next = x]

\* LRUCache.__init__
LRUCache(capacity) ==
    [capacity |-> capacity, count |-> 0, d |-> [k \in LRUKeys |-> Null], head |-> Null,
     heap |-> [id \in ItemIds |-> Free]]

\* The items reachable from the cache: an item nothing refers to is gone
RECURSIVE Reach(_, _)
Reach(heap, S) ==
    LET T == (S \cup {heap[x].next : x \in S} \cup {heap[x].prev : x \in S}) \ {Null}
    IN  IF T = S THEN S ELSE Reach(heap, T)

collect(c) ==
    LET live == Reach(c.heap, ({c.head} \cup {c.d[k] : k \in LRUKeys}) \ {Null})
    IN  [c EXCEPT !.heap = [id \in ItemIds |-> IF id \in live THEN c.heap[id] ELSE Free]]

\* tailof that takes the item after the head
tailof_Next(c) == c.heap[c.head].next

\* LRUCache.get: "tail = self.head.prev"
tailof(c) == c.heap[c.head].prev

\* LRUCache.get(key); vok is what self.vfunc(key, item.o) returns and o what
\* self.cfunc(key) returns, both taken to return.  The result is the cache
\* after the call and what the call returned.
LRUCache_get(c, key, vok, o) ==
    LET item == c.d[key]
    IN  IF item # Null
        THEN LET h1 == movebefore(c.heap, item, c.head)
                 h2 == IF ~vok THEN [h1 EXCEPT ![item].o = o] ELSE h1
             IN  [self |-> [c EXCEPT !.heap = h2, !.head = item],
                  ret |-> Returns(h2[item].o)]
        ELSE LET id == alloc(c.heap)
                 c1 == [c EXCEPT !.heap = LRUItem(c.heap, id, o, key, c.head),
                                 !.head = id, !.d[key] = id]
                 tail == tailof(c1)
             IN  IF c1.count = c1.capacity
                 THEN IF c1.d[c1.heap[tail].key] # tail
                      THEN [self |-> c1, ret |-> Raises("AssertionError")]
                      ELSE [self |-> collect([c1 EXCEPT !.d[c1.heap[tail].key] = Null,
                                                        !.heap = drop(c1.heap, tail)]),
                            ret |-> Returns(o)]
                 ELSE [self |-> [c1 EXCEPT !.count = @ + 1], ret |-> Returns(o)]

\* LRUCache.debugitems: the keys from the head along next, n of them
RECURSIVE itemsfrom(_, _, _)
itemsfrom(c, x, n) ==
    IF n = 0 \/ x = Null THEN <<>> ELSE <<x>> \o itemsfrom(c, c.heap[x].next, n - 1)

debugitems(c) ==
    LET w == itemsfrom(c, c.head, c.count) IN [i \in 1..Len(w) |-> c.heap[w[i]].key]

\* A cache of a capacity of one or more, no key requested.  call.self is the
\* cache, call.key, call.vok and call.o are the last call and what its
\* functions returned, call.hit whether the key was found, and call.requested
\* the keys requested so far, the latest first.
InitLRU ==
    /\ \E capacity \in 1..MaxCapacity :
          call = [fn |-> "LRUCache", self |-> LRUCache(capacity), key |-> Null,
                  vok |-> TRUE, o |-> Null, hit |-> FALSE, requested |-> <<>>]
    /\ returned = NotCalled
    /\ MakeOff /\ ParOff /\ VarOff /\ CondOff /\ FlagOff

\* cache.get(key)
Get ==
    /\ PureOnly
    /\ call.fn = "LRUCache"
    /\ \E key \in LRUKeys, vok \in BOOLEAN, o \in LRUObjects :
          LET r == LRUCache_get(call.self, key, vok, o)
          IN  /\ call' = [call EXCEPT !.self = r.self, !.key = key, !.vok = vok, !.o = o,
                                      !.hit = call.self.d[key] # Null,
                                      !.requested = <<key>> \o SelectSeq(@, LAMBDA k : k # key)]
              /\ returned' = r.ret

NextLRU == Get

SpecLRU == InitLRU /\ [][NextLRU]_vars

\* The keys in the dictionary, and its items
Cached(c) == {k \in LRUKeys : c.d[k] # Null}

DictItems(c) == {c.d[k] : k \in Cached(c)}

\* C39: after any sequence of get calls on a cache of capacity >= 1 the
\* cache holds at most capacity entries, count is the number of dictionary
\* entries, the list from head along next is circular, holds exactly the
\* items of the dictionary, each once and under its own key, next and prev
\* are inverse to each other, and head is the item of the key requested last.
C39_CacheInvariants ==
    call.fn = "LRUCache" =>
        LET c == call.self
            w == itemsfrom(c, c.head, c.count)
        IN  /\ c.capacity >= 1
            /\ Cardinality(Cached(c)) <= c.capacity
            /\ c.count = Cardinality(Cached(c))
            /\ Len(w) = c.count
            /\ \A i, j \in 1..Len(w) : w[i] = w[j] => i = j
            /\ {w[i] : i \in 1..Len(w)} = DictItems(c)
            /\ \A k \in Cached(c) : c.heap[c.d[k]].key = k
            /\ \A x \in DictItems(c) :
                  /\ c.heap[x].next \in DictItems(c) /\ c.heap[x].prev \in DictItems(c)
                  /\ c.heap[c.heap[x].next].prev = x
                  /\ c.heap[c.heap[x].prev].next = x
            /\ c.count > 0 => c.heap[w[c.count]].next = c.head
            /\ \A id \in ItemIds \ DictItems(c) : c.heap[id] = Free
            /\ IF call.requested = <<>> THEN c.head = Null /\ c.count = 0
               ELSE /\ c.head # Null /\ c.head = c.d[call.requested[1]]
                    /\ call.requested[1] = call.key
            /\ returned # Raises("AssertionError")

\* A full cache of two entries after a miss that evicted a key
C39_Witness ==
    /\ call.fn = "LRUCache" /\ ~call.hit
    /\ call.self.capacity = 2 /\ call.self.count = 2
    /\ Len(call.requested) = 3
    /\ call.self.d[call.requested[3]] = Null
    /\ debugitems(call.self) = <<call.requested[1], call.requested[2]>>

\* The key requested least recently among the keys cached, by the history of
\* the requests
LeastRecent(c, requested) ==
    LET cached == SelectSeq(requested, LAMBDA k : k \in Cached(c))
    IN  cached[Len(cached)]

\* s without its element x
Without(s, x) == SelectSeq(s, LAMBDA k : k # x)

\* C40: a get that misses on a full cache evicts exactly one entry, the key
\* requested least recently among those cached, and puts the new key first;
\* a hit evicts nothing and changes no entry of the dictionary, moves the key
\* to the head of the list and leaves the order of the others, and returns
\* the cached object, or, when the verify function rejected it, the object
\* the creation function returned, which replaces the cached one in the same
\* item; the objects of the other keys stay as they were.
C40_EvictionAndHit ==
    [][(call.fn = "LRUCache" /\ call'.fn = "LRUCache") =>
          LET c == call.self
              c2 == call'.self
              key == call'.key
          IN  /\ call'.hit = (key \in Cached(c))
              /\ (~call'.hit /\ c.count = c.capacity) =>
                    /\ Cached(c) \ Cached(c2) = {LeastRecent(c, call.requested)}
                    /\ Cached(c2) \ Cached(c) = {key}
                    /\ c2.count = c.count
                    /\ debugitems(c2) = <<key>> \o Without(debugitems(c),
                                                           LeastRecent(c, call.requested))
                    /\ debugitems(c)[c.count] = LeastRecent(c, call.requested)
                    /\ returned' = Returns(call'.o)
                    /\ c2.heap[c2.d[key]].o = call'.o
              /\ (~call'.hit /\ c.count < c.capacity) =>
                    /\ Cached(c2) = Cached(c) \cup {key}
                    /\ c2.count = c.count + 1
              /\ call'.hit =>
                    /\ c2.d = c.d /\ c2.count = c.count
                    /\ c2.head = c.d[key]
                    /\ debugitems(c2) = <<key>> \o Without(debugitems(c), key)
                    /\ returned' = Returns(IF call'.vok THEN c.heap[c.d[key]].o
                                           ELSE call'.o)
                    /\ c2.heap[c.d[key]].o = (IF call'.vok THEN c.heap[c.d[key]].o
                                              ELSE call'.o)
              /\ \A k \in Cached(c) \cap Cached(c2) :
                    k # key => c2.heap[c2.d[k]].o = c.heap[c.d[k]].o]_vars

\* A hit on the tail of a full cache that has evicted a key before, and whose
\* object the verify function rejected: the creation function's other object
\* is returned and cached
C40_Witness ==
    /\ call.fn = "LRUCache" /\ call.hit /\ ~call.vok
    /\ call.self.capacity = 2 /\ call.self.count = 2
    /\ Len(call.requested) = 3
    /\ returned = Returns(call.o)
    /\ call.self.heap[call.self.d[call.key]].o = call.o
    /\ \E k \in Cached(call.self) : k # call.key /\ call.self.heap[call.self.d[k]].o # call.o

====
